---- MODULE Spec2Model ----
(***************************************************************************)
(* Model of the Cloudflare Access middleware of                            *)
(* packages/hono-helpers/src/middleware/useCloudflareAccess.ts together    *)
(* with the onError hook of useOnError.ts, of the useAuth middleware of    *)
(* useAuth.ts, and of the ConcurrencyLock of packages/tools/src/lock.ts;   *)
(* further of redactUrl (helpers/url.ts), of the handler chain of a Hono   *)
(* app as hono.test.ts exercises it, of the AxiomLogger of                 *)
(* packages/tools/src/cmd/sentry.ts, and of the useSentry and              *)
(* useAxiomLogger middleware.                                              *)
(*                                                                         *)
(* Specifications.                                                         *)
(*  - Spec: one request at a time through a constructed Access middleware. *)
(*  - SpecConstruct: Spec preceded by the call of useCloudflareAccess.     *)
(*  - SpecConcurrent: several requests in flight through one middleware.   *)
(*  - SpecLock: processes that run a command under a ConcurrencyLock.      *)
(*  - SpecAuth: one request through a handler of useAuth.                  *)
(*  - SpecUrl: one call of redactUrl.                                      *)
(*  - SpecHono: one request through an app of a few handlers.              *)
(*  - SpecLogger: an AxiomLogger, its timers, flushes and storage, driven  *)
(*    by an application; SpecLoggerOk: the same in memory, with Axiom and  *)
(*    the trace lookup always answering.                                   *)
(*  - SpecMiddleware: one request through useSentry, useAxiomLogger and a  *)
(*    handler, with the promises of c.var.txWaitUntil.                     *)
(*                                                                         *)
(* Representation.                                                         *)
(*  - A JSON value is a tagged record: Str, Num, Arr, or Undefined.  A JSON *)
(*    object is a record of such values; a missing key reads as Undefined. *)
(*  - Numbers (exp, nbf, iat, Date.now()) are in thousandths of a second,  *)
(*    so that Date.now() / 1000 keeps its fraction.                        *)
(*  - A string that the code matches against a regular expression is one   *)
(*    of a few sample strings; the regular expression is the set of the    *)
(*    samples it matches.  A team domain is the tuple of the three pieces  *)
(*    the template literal concatenates.                                   *)
(*  - The Cf-Access-Jwt-Assertion value is a sequence of characters: Dot   *)
(*    or a chunk, a run of non-dot characters carrying what base64         *)
(*    decoding of the run yields.                                          *)
(***************************************************************************)
EXTENDS Integers, Sequences, FiniteSets, TLC

\* ------------------------------------------------------------------ bounds
MaxKeys == 2    \* longest keys array of a certs response
MaxAud == 2     \* longest aud array of a user payload
MaxSec == 2     \* largest whole second the clock reaches
MaxSegs == 4    \* most dot-separated segments of a malformed token
MaxRequests == 2   \* requests that are with the middleware at the same time
MoreProcs == 1     \* processes started beyond the concurrency of their lock
MaxParams == 2     \* most query parameters of a URL
MaxChain == 3      \* most handlers registered on a Hono app
MaxLogs == 4       \* most entries given to an AxiomLogger
MaxManual == 1     \* most flush calls the application makes itself
MaxBackground == 2 \* most promises a handler pushes to txWaitUntil

\* ------------------------------------------------------------- JSON values
Undefined == [ty |-> "undefined"]
Null == [ty |-> "null"]
Str(s) == [ty |-> "str", s |-> s]
Num(n) == [ty |-> "num", n |-> n]
Arr(a) == [ty |-> "arr", a |-> a]
Obj(o) == [ty |-> "obj", o |-> o]

\* v itself.  The comparison puts a constant in normal form once, when its
\* definition is evaluated, so that the workers of TLC only read it.
Normal(v) == IF v = v THEN v ELSE v

\* obj.f of a JSON object
Get(obj, f) == IF f \in DOMAIN obj THEN obj[f] ELSE Undefined

\* the object restricted to the keys a zod object schema declares
Strip(obj, fields) == [f \in (DOMAIN obj) \cap fields |-> obj[f]]

\* thousandths per second
Milli == 1000

\* result of a parse or of an awaited call
Ok(v) == [ok |-> TRUE, val |-> v]
Err(m) == [ok |-> FALSE, err |-> m]

\* ---------------------------------------------------------- sample strings
\* 64 lowercase hex characters
HexA == "a1a1"
HexB == "b2b2"
\* not 64 lowercase hex characters
NotHex == "XYZ"

TeamA == "acme"
TeamB == "evil"
\* contains '_' and uppercase
BadTeam == "Bad_Team"

TeamDomainOf(team) == <<"https://", team, ".cloudflareaccess.com">>
OtherDomain == <<"https://", TeamA, ".example.com">>

\* -------------------------------------------------------------- zod schemas
\* z.string().regex(/^[a-z0-9-]+$/)
AccessTeam(v) == v.ty = "str" /\ v.s \in {TeamA, TeamB}

\* z.string().regex(/^https:\/\/[a-z0-9-]+\.cloudflareaccess\.com$/)
AccessTeamDomain(v) ==
    /\ v.ty = "str"
    /\ Len(v.s) = 3
    /\ v.s[1] = "https://"
    /\ v.s[2] \in {TeamA, TeamB}
    /\ v.s[3] = ".cloudflareaccess.com"

\* z.string().regex(/^[a-f0-9]{64}$/)
AccessKid(v) == v.ty = "str" /\ v.s \in {HexA, HexB}

\* z.string().regex(/^[a-f0-9]{64}$/)
AccessAudience(v) == v.ty = "str" /\ v.s \in {HexA, HexB}

\* z.literal('RS256')
AccessAlgorithm(v) == v = Str("RS256")

\* z.string().min(1)
NonEmptyString(v) == v.ty = "str" /\ v.s # ""

\* z.number().min(1)
NumberMin1(v) == v.ty = "num" /\ v.n >= 1 * Milli

AccessHeaderFields == Normal({"kid", "alg", "typ"})

AccessHeader(v) ==
    /\ v.ty = "obj"
    /\ AccessKid(Get(v.o, "kid"))
    /\ AccessAlgorithm(Get(v.o, "alg"))
    /\ Get(v.o, "typ") \in {Undefined, Str("JWT")}

AccessKey(v) ==
    /\ v.ty = "obj"
    /\ AccessKid(Get(v.o, "kid"))
    /\ Get(v.o, "kty") = Str("RSA")
    /\ AccessAlgorithm(Get(v.o, "alg"))
    /\ NonEmptyString(Get(v.o, "use"))
    /\ NonEmptyString(Get(v.o, "e"))
    /\ NonEmptyString(Get(v.o, "n"))

PemCert == "-----BEGIN CERTIFICATE-----MIIB-----END CERTIFICATE-----"

PublicCERT(v) ==
    /\ v.ty = "obj"
    /\ AccessKid(Get(v.o, "kid"))
    /\ Get(v.o, "cert") = Str(PemCert)

\* z.array(AccessKey)
AccessKeys(v) == v.ty = "arr" /\ \A i \in 1..Len(v.a) : AccessKey(v.a[i])

\* z.array(PublicCERT)
PublicCERTs(v) == v.ty = "arr" /\ \A i \in 1..Len(v.a) : PublicCERT(v.a[i])

\* AccessCertsResponse without the two .min(1)
AccessCertsResponse_NoMin(v) ==
    /\ v.ty = "obj"
    /\ AccessKeys(Get(v.o, "keys"))
    /\ PublicCERT(Get(v.o, "public_cert"))
    /\ PublicCERTs(Get(v.o, "public_certs"))

AccessCertsResponse(v) ==
    /\ v.ty = "obj"
    /\ AccessKeys(Get(v.o, "keys"))
    /\ Len(Get(v.o, "keys").a) >= 1
    /\ PublicCERT(Get(v.o, "public_cert"))
    /\ PublicCERTs(Get(v.o, "public_certs"))
    /\ Len(Get(v.o, "public_certs").a) >= 1

\* sample strings of the payload schemas
Uuid == "3f0c7a52-uuid"
Email == "user@example.com"
CommonName == "0123abcd.access"

AccessPayloadCommon(v) ==
    /\ v.ty = "obj"
    /\ Get(v.o, "type") \in {Str("app"), Str("org")}
    /\ NumberMin1(Get(v.o, "exp"))
    /\ NumberMin1(Get(v.o, "iat"))
    /\ AccessTeamDomain(Get(v.o, "iss"))

ServiceAuthAccessPayloadFields ==
    Normal({"type", "exp", "iat", "iss", "aud", "common_name", "sub"})

\* ServiceAuthAccessPayload without identity_nonce: z.undefined()
ServiceAuthAccessPayload_AnyNonce(v) ==
    /\ AccessPayloadCommon(v)
    /\ AccessAudience(Get(v.o, "aud"))
    /\ Get(v.o, "common_name") = Str(CommonName)
    /\ Get(v.o, "sub") = Str("")

ServiceAuthAccessPayload(v) ==
    /\ AccessPayloadCommon(v)
    /\ AccessAudience(Get(v.o, "aud"))
    /\ Get(v.o, "common_name") = Str(CommonName)
    /\ Get(v.o, "sub") = Str("")
    /\ Get(v.o, "identity_nonce") = Undefined

\* z.array(AccessAudience)
AccessAudiences(v) == v.ty = "arr" /\ \A i \in 1..Len(v.a) : AccessAudience(v.a[i])

UserAccessPayloadFields ==
    Normal({"type", "exp", "iat", "iss", "aud", "nbf", "email", "identity_nonce",
            "sub", "country"})

UserAccessPayload(v) ==
    /\ AccessPayloadCommon(v)
    /\ AccessAudiences(Get(v.o, "aud"))
    /\ NumberMin1(Get(v.o, "nbf"))
    /\ Get(v.o, "email") = Str(Email)
    /\ NonEmptyString(Get(v.o, "identity_nonce"))
    /\ Get(v.o, "sub") = Str(Uuid)
    /\ Get(v.o, "country") \in {Str("US"), Str("DE")}

\* z.union([UserAccessPayload, ServiceAuthAccessPayload]).parse
AccessPayload(v) ==
    IF UserAccessPayload(v) THEN Ok(Strip(v.o, UserAccessPayloadFields))
    ELSE IF ServiceAuthAccessPayload(v)
         THEN Ok(Strip(v.o, ServiceAuthAccessPayloadFields))
    ELSE Err("ZodError: AccessPayload")

\* ------------------------------------------------- strings, base64, crypto
Dot == [kind |-> "dot"]

\* the character codes of `${header}.${payload}`
asciiToUint8Array(s) == [codes |-> s]

\* the signature the holder of the private key of modulus n makes over msg
Sign(n, msg) == [signer |-> n, msg |-> msg]

\* bytes that are no signature of anything
NoSig == Normal(Sign("", asciiToUint8Array(<<>>)))

\* what the decoded bytes of a run of characters are
AtobError == [t |-> "atobError", v |-> Undefined, sig |-> NoSig]
Bytes(sig) == [t |-> "bytes", v |-> Undefined, sig |-> sig]
JsonText(v) == [t |-> "json", v |-> v, sig |-> NoSig]

\* a run of characters; legal when all of them are in [a-zA-Z0-9_-]
Chunk(legal, data) == [kind |-> "chunk", legal |-> legal, data |-> data]

\* String.prototype.split('.')
RECURSIVE split(_)
split(s) ==
    IF s = <<>> THEN << <<>> >>
    ELSE LET rest == split(Tail(s)) IN
         IF Head(s).kind = "dot" THEN << <<>> >> \o rest
         ELSE << <<Head(s)>> \o Head(rest) >> \o Tail(rest)

\* /^[a-z0-9_-]+\.[a-z0-9_-]+\.[a-z0-9_-]+$/i as an automaton: dots is the
\* number of '.' consumed, inSeg whether the current segment is non-empty
RECURSIVE regexRun(_, _, _)
regexRun(s, dots, inSeg) ==
    IF s = <<>> THEN dots = 2 /\ inSeg
    ELSE IF Head(s).kind = "dot"
         THEN inSeg /\ dots < 2 /\ regexRun(Tail(s), dots + 1, FALSE)
         ELSE Head(s).legal /\ regexRun(Tail(s), dots, TRUE)

accessJWTRegex(s) == regexRun(s, 0, FALSE)

\* z.string().regex(accessJWTRegex).parse
AccessJWT(v) ==
    IF v.ty = "str" /\ accessJWTRegex(v.s) THEN Ok(v.s)
    ELSE Err("ZodError: AccessJWT")

\* atob of a segment after the '-', '_' and whitespace replacements.  The
\* empty string decodes to no bytes; a chunk decodes to its data; inputs hold
\* no two adjacent chunks (a chunk is a maximal run).
base64URLDecode(seg) ==
    IF seg = <<>> THEN Ok(Bytes(NoSig))
    ELSE IF Len(seg) = 1 /\ seg[1].data.t # "atobError" THEN Ok(seg[1].data)
    ELSE Err("InvalidCharacterError")

\* JSON.parse(textDecoder.decode(bytes))
JSONparse(bytes) ==
    IF bytes.t = "json" THEN Ok(bytes.v) ELSE Err("SyntaxError")

\* RSA moduli that are valid base64url key material
Moduli == Normal({"N1", "N2"})

\* crypto.subtle.importKey('jwk', jwk, RSASSA-PKCS1-v1_5/SHA-256, ['verify'])
importKey(jwk) ==
    IF /\ jwk.o.n.s \in Moduli
       /\ jwk.o.use = Str("sig")
    THEN Ok([n |-> jwk.o.n.s])
    ELSE Err("DataError")

\* crypto.subtle.verify('RSASSA-PKCS1-v1_5', key, signature, data)
cryptoVerify(key, signature, data) == signature.sig = Sign(key.n, data)

\* new URL(path, base): origin is scheme and host of the base
URL(path, base) == [origin |-> <<base[1], base[2], base[3]>>, pathname |-> path]

\* URL.prototype.toString
URLtoString(u) == u.origin \o <<u.pathname>>

\* Math.floor and Math.ceil of a number of thousandths, in whole seconds
MathFloor(x) == x \div Milli
MathCeil(x) == (x + Milli - 1) \div Milli

\* includesAud that looks at the first element of an array only
includesAud_FirstOnly(payload, aud) ==
    IF payload.aud.ty = "str" THEN payload.aud.s = aud
    ELSE Len(payload.aud.a) >= 1 /\ payload.aud.a[1].s = aud

\* payload.aud is a string for service auth and an array for users
includesAud(payload, aud) ==
    IF payload.aud.ty = "str" THEN payload.aud.s = aud
    ELSE \E i \in 1..Len(payload.aud.a) : payload.aud.a[i].s = aud

\* ------------------------------------------------------------ the inputs
\* tokens: header, payload and signature segments
HeaderJSON(kid) ==
    Obj([kid |-> Str(kid), alg |-> Str("RS256"), typ |-> Str("JWT")])

ValidHeaders == {HeaderJSON(HexA), Obj([kid |-> Str(HexB), alg |-> Str("RS256")])}

InvalidHeaders ==
    { HeaderJSON(NotHex),
      Obj([kid |-> Str(HexA), alg |-> Str("none"), typ |-> Str("JWT")]),
      Obj([kid |-> Str(HexA), alg |-> Str("RS256"), typ |-> Str("JWS")]),
      Obj([alg |-> Str("RS256")]),
      Num(1 * Milli) }

Issuers == {TeamDomainOf(TeamA), TeamDomainOf(TeamB)}
ExpValues == {2 * Milli, 2 * Milli + 500}
NbfValues == {2 * Milli, 2 * Milli + 500}
AudArrays == UNION {[1..n -> {Str(HexA), Str(HexB)}] : n \in 0..MaxAud}

UserPayload(iss, aud, exp, nbf) ==
    [type |-> Str("app"), exp |-> Num(exp), iat |-> Num(1 * Milli),
     iss |-> Str(iss), aud |-> Arr(aud), nbf |-> Num(nbf),
     email |-> Str(Email), identity_nonce |-> Str("nonce"),
     sub |-> Str(Uuid), country |-> Str("US")]

ServicePayload(iss, aud, exp) ==
    [type |-> Str("app"), exp |-> Num(exp), iat |-> Num(1 * Milli),
     iss |-> Str(iss), aud |-> Str(aud), common_name |-> Str(CommonName),
     sub |-> Str("")]

Without(o, f) == [g \in (DOMAIN o) \ {f} |-> o[g]]
With(o, f, v) == [g \in (DOMAIN o) \cup {f} |-> IF g = f THEN v ELSE o[g]]

BaseUser == UserPayload(TeamDomainOf(TeamA), <<Str(HexA)>>, 2 * Milli + 500, 2 * Milli)
BaseService == ServicePayload(TeamDomainOf(TeamA), HexA, 2 * Milli + 500)

\* payloads that differ from a valid one in one field
OddPayloads ==
    { With(BaseUser, "type", Str("foo")),
      With(BaseUser, "exp", Num(500)),
      Without(BaseUser, "exp"),
      Without(BaseUser, "iat"),
      With(BaseUser, "iss", Str(OtherDomain)),
      With(BaseUser, "iss", Str(TeamDomainOf(BadTeam))),
      With(BaseUser, "aud", Arr(<<Str(HexA), Str(NotHex)>>)),
      With(BaseUser, "aud", Str(HexA)),
      Without(BaseUser, "nbf"),
      With(BaseUser, "nbf", Num(500)),
      With(BaseUser, "email", Str("nobody")),
      With(BaseUser, "identity_nonce", Str("")),
      Without(BaseUser, "identity_nonce"),
      With(BaseUser, "sub", Str("bob")),
      With(BaseUser, "country", Str("USA")),
      With(BaseService, "identity_nonce", Str("nonce")),
      With(BaseService, "common_name", Str("cn")),
      With(BaseService, "sub", Str(Uuid)),
      With(BaseService, "aud", Str(NotHex)),
      With(BaseService, "aud", Arr(<<Str(HexA)>>)),
      With(BaseService, "nbf", Num(9 * Milli)),
      With(BaseService, "nbf", Str("soon")) }

PayloadJSONs ==
    {Obj(UserPayload(i, <<Str(a)>>, e, n)) :
        i \in Issuers, a \in {HexA, HexB}, e \in ExpValues, n \in NbfValues}
    \cup {Obj(With(BaseUser, "aud", Arr(a))) : a \in AudArrays}
    \cup {Obj(ServicePayload(i, a, e)) :
        i \in Issuers, a \in {HexA, HexB}, e \in ExpValues}
    \cup {Obj(o) : o \in OddPayloads}
    \cup {Null}

Seg(data) == <<Chunk(TRUE, data)>>

Join3(h, p, s) == h \o <<Dot>> \o p \o <<Dot>> \o s

BaseHeaderSeg == Seg(JsonText(HeaderJSON(HexA)))
BasePayloadSeg == Seg(JsonText(Obj(BaseUser)))
BaseMsg == asciiToUint8Array(BaseHeaderSeg \o <<Dot>> \o BasePayloadSeg)

\* signatures that can come with header h and payload p: by either key over
\* this token, or by the first key over another token
Signatures(h, p) ==
    { Bytes(Sign(n, asciiToUint8Array(h \o <<Dot>> \o p))) : n \in Moduli }
    \cup {Bytes(Sign("N1", BaseMsg))}

HeaderSegs == {Seg(JsonText(h)) : h \in ValidHeaders}
PayloadSegs ==
    {Seg(JsonText(v)) : v \in PayloadJSONs} \cup {Seg(Bytes(NoSig)), Seg(AtobError)}

\* three segments with a header that satisfies the schema
WellFormedTokens ==
    UNION { { Join3(hp[1], hp[2], Seg(sg)) : sg \in Signatures(hp[1], hp[2]) } :
            hp \in HeaderSegs \X PayloadSegs }

BaseSigSeg == Seg(Bytes(Sign("N1", BaseMsg)))

\* three segments with a header that is no base64, no JSON or violates the
\* schema, or with a signature that is no base64
BadHeaderTokens ==
    { Join3(Seg(h), BasePayloadSeg, BaseSigSeg) :
        h \in {JsonText(v) : v \in InvalidHeaders} \cup {Bytes(NoSig), AtobError} }
    \cup { Join3(BaseHeaderSeg, BasePayloadSeg, Seg(AtobError)) }

RECURSIVE Repeat(_, _)
Repeat(seg, n) == IF n = 1 THEN seg ELSE seg \o <<Dot>> \o Repeat(seg, n - 1)

\* strings the regular expression rejects: not three segments, an empty
\* segment, a character outside the class, the empty string
MalformedTokens ==
    { Repeat(BaseHeaderSeg, n) : n \in (1..MaxSegs) \ {3} }
    \cup { Join3(<<>>, BasePayloadSeg, BaseSigSeg),
           Join3(BaseHeaderSeg, <<>>, BaseSigSeg),
           Join3(BaseHeaderSeg, BasePayloadSeg, <<>>),
           Join3(<<Chunk(FALSE, JsonText(HeaderJSON(HexA)))>>, BasePayloadSeg, BaseSigSeg),
           Join3(BaseHeaderSeg, BasePayloadSeg, <<Chunk(FALSE, Bytes(Sign("N1", BaseMsg)))>>),
           <<>> }

\* req.headers.get('Cf-Access-Jwt-Assertion')
HeaderValues ==
    Normal({Null} \cup {Str(t) : t \in WellFormedTokens \cup BadHeaderTokens
                                     \cup MalformedTokens})

\* certs responses
Jwk(kid, use, n) ==
    Obj([kid |-> Str(kid), kty |-> Str("RSA"), alg |-> Str("RS256"),
         use |-> Str(use), e |-> Str("AQAB"), n |-> Str(n)])

\* two keys, and a second key under the first kid
KeyKinds ==
    { Jwk(HexA, "sig", "N1"), Jwk(HexB, "sig", "N2"), Jwk(HexA, "sig", "N2") }

KeyArrays == UNION {[1..n -> KeyKinds] : n \in 0..MaxKeys}

Cert == Obj([kid |-> Str(HexA), cert |-> Str(PemCert)])

CertsBody(keys) ==
    [keys |-> Arr(keys), public_cert |-> Cert, public_certs |-> Arr(<<Cert>>)]

BaseBody == CertsBody(<<Jwk(HexA, "sig", "N1"), Jwk(HexB, "sig", "N2")>>)

\* bodies that differ from a valid one in one place
OddBodies ==
    { Obj(Without(BaseBody, "keys")),
      Obj(Without(BaseBody, "public_cert")),
      Obj(Without(BaseBody, "public_certs")),
      Obj(With(BaseBody, "public_certs", Arr(<<>>))),
      Obj(With(BaseBody, "public_cert", Obj([kid |-> Str(HexA), cert |-> Str("MIIB")]))),
      Obj(With(BaseBody, "keys",
               Arr(<<Obj(With(Jwk(HexA, "sig", "N1").o, "kty", Str("EC")))>>))),
      Obj(With(BaseBody, "keys", Arr(<<Jwk(NotHex, "sig", "N1")>>))),
      Null }

\* a body of keys that importKey refuses: not for signatures, no modulus
UnusableKeyBodies ==
    { Obj(CertsBody(<<Jwk(HexA, "enc", "N1"), Jwk(HexB, "sig", "!!")>>)) }

Bodies ==
    {JsonText(Obj(CertsBody(k))) : k \in KeyArrays}
    \cup {JsonText(v) : v \in OddBodies \cup UnusableKeyBodies}
    \cup {Bytes(NoSig)}

\* bodies that come with an error status
ErrorBodies == {JsonText(Obj(BaseBody)), JsonText(Null), Bytes(NoSig)}

ErrorStatuses == {404, 503}

\* what the promise returned by fetch settles with
FetchOutcomes ==
    Normal({Err("TypeError: fetch failed")}
           \cup {Ok([status |-> 200, body |-> b]) : b \in Bodies}
           \cup {Ok([status |-> st, body |-> b]) : st \in ErrorStatuses, b \in ErrorBodies})

\* Date.now()
Clock == Normal({sec * Milli + f : sec \in 1..MaxSec, f \in {0, 500}})

\* ------------------------------------------------------- the code, by stage
extractJWTFromRequest(header) == AccessJWT(header)

hasValidJWT(header) == extractJWTFromRequest(header).ok

\* new HTTPException(status, { message })
newHTTPException(status, message) ==
    [type |-> "HTTPException", status |-> status, message |-> message]

\* the onError hook: the response, and what it hands to Sentry
useOnError(err) ==
    IF err.type = "HTTPException"
    THEN LET status == err.status IN
         [status |-> status,
          body |-> [success |-> FALSE,
                    error |-> [message |-> IF status < 500 /\ status = 401
                                            THEN "unauthorized"
                                            ELSE err.message]],
          captured |-> IF status >= 500 THEN <<err>> ELSE <<>>]
    ELSE [status |-> 500,
          body |-> [success |-> FALSE, error |-> [message |-> "internal server error"]],
          captured |-> <<err>>]

\* validateAccessJWT up to the call of fetch, with the algorithm of the header
\* left unchecked
validateAccessJWT_Decode_AnyAlg(header, teamDomain) ==
    LET jwt == extractJWTFromRequest(header) IN
    IF ~jwt.ok THEN Err(jwt.err)
    ELSE LET ps == split(jwt.val) IN
    IF Len(ps) # 3 THEN Err("JWT does not have three parts.")
    ELSE LET bytes == base64URLDecode(ps[1]) IN
    IF ~bytes.ok THEN Err(bytes.err)
    ELSE LET json == JSONparse(bytes.val) IN
    IF ~json.ok THEN Err(json.err)
    ELSE IF ~(json.val.ty = "obj" /\ AccessKid(Get(json.val.o, "kid")))
         THEN Err("ZodError: AccessHeader")
    ELSE Ok([jwt |-> jwt.val, parts |-> ps, kid |-> json.val.o.kid.s,
             certsURL |-> URL("/cdn-cgi/access/certs", teamDomain)])

\* validateAccessJWT up to the call of fetch
validateAccessJWT_Decode(header, teamDomain) ==
    LET jwt == extractJWTFromRequest(header) IN
    IF ~jwt.ok THEN Err(jwt.err)
    ELSE LET ps == split(jwt.val) IN
    IF Len(ps) # 3 THEN Err("JWT does not have three parts.")
    ELSE LET bytes == base64URLDecode(ps[1]) IN
    IF ~bytes.ok THEN Err(bytes.err)
    ELSE LET json == JSONparse(bytes.val) IN
    IF ~json.ok THEN Err(json.err)
    ELSE IF ~AccessHeader(json.val) THEN Err("ZodError: AccessHeader")
    ELSE Ok([jwt |-> jwt.val, parts |-> ps, kid |-> json.val.o.kid.s,
             certsURL |-> URL("/cdn-cgi/access/certs", teamDomain)])

\* keys.find that falls back to the first key when no kid matches
find_FirstOnMiss(keys, k) ==
    LET hits == {i \in 1..Len(keys) : keys[i].o.kid.s = k} IN
    IF hits = {} THEN keys[1]
    ELSE keys[CHOOSE i \in hits : \A j \in hits : i <= j]

\* keys.find that returns the last key of the kid
find_Last(keys, k) ==
    LET hits == {i \in 1..Len(keys) : keys[i].o.kid.s = k} IN
    IF hits = {} THEN Undefined
    ELSE keys[CHOOSE i \in hits : \A j \in hits : i >= j]

\* keys.find((key) => key.kid === kid)
find(keys, k) ==
    LET hits == {i \in 1..Len(keys) : keys[i].o.kid.s = k} IN
    IF hits = {} THEN Undefined
    ELSE keys[CHOOSE i \in hits : \A j \in hits : i <= j]

\* validateAccessJWT from the parsed body to the call of importKey
validateAccessJWT_FindKey(json, k) ==
    IF ~AccessCertsResponse(json) THEN Err("ZodError: AccessCertsResponse")
    ELSE LET jwk == find(json.o.keys.a, k) IN
    IF jwk = Undefined THEN Err("Could not find matching signing key.")
    ELSE Ok(jwk)

\* a value in a boolean position
Truthy(v) == v \notin {Undefined, Null, Str(""), Num(0)}

\* validateAccessJWT_Claims without the expiry check
validateAccessJWT_Claims_NoExpiry(ps, nowMs, url, aud) ==
    LET bytes == base64URLDecode(ps[2]) IN
    IF ~bytes.ok THEN Err(bytes.err)
    ELSE LET json == JSONparse(bytes.val) IN
    IF ~json.ok THEN Err(json.err)
    ELSE LET parsed == AccessPayload(json.val) IN
    IF ~parsed.ok THEN Err(parsed.err)
    ELSE LET obj == parsed.val IN
    IF obj.iss.s # url.origin THEN Err("JWT issuer is incorrect.")
    ELSE IF ~includesAud(obj, aud) THEN Err("JWT audience is incorrect.")
    ELSE IF /\ Truthy(Get(obj, "identity_nonce"))
            /\ MathCeil(nowMs) * Milli < obj.nbf.n
         THEN Err("JWT is not yet valid.")
    ELSE LET sig == base64URLDecode(ps[3]) IN
    IF ~sig.ok THEN Err(sig.err)
    ELSE Ok([payloadObj |-> obj, signature |-> sig.val,
             data |-> asciiToUint8Array(ps[1] \o <<Dot>> \o ps[2])])

\* validateAccessJWT_Claims with the audience checked before the issuer
validateAccessJWT_Claims_AudFirst(ps, nowMs, url, aud) ==
    LET bytes == base64URLDecode(ps[2]) IN
    IF ~bytes.ok THEN Err(bytes.err)
    ELSE LET json == JSONparse(bytes.val) IN
    IF ~json.ok THEN Err(json.err)
    ELSE LET parsed == AccessPayload(json.val) IN
    IF ~parsed.ok THEN Err(parsed.err)
    ELSE LET obj == parsed.val IN
    IF ~includesAud(obj, aud) THEN Err("JWT audience is incorrect.")
    ELSE IF obj.iss.s # url.origin THEN Err("JWT issuer is incorrect.")
    ELSE IF MathFloor(nowMs) * Milli >= obj.exp.n THEN Err("JWT has expired.")
    ELSE IF /\ Truthy(Get(obj, "identity_nonce"))
            /\ MathCeil(nowMs) * Milli < obj.nbf.n
         THEN Err("JWT is not yet valid.")
    ELSE LET sig == base64URLDecode(ps[3]) IN
    IF ~sig.ok THEN Err(sig.err)
    ELSE Ok([payloadObj |-> obj, signature |-> sig.val,
             data |-> asciiToUint8Array(ps[1] \o <<Dot>> \o ps[2])])

\* validateAccessJWT_Claims with > for >= in the expiry check
validateAccessJWT_Claims_ExpiryStrict(ps, nowMs, url, aud) ==
    LET bytes == base64URLDecode(ps[2]) IN
    IF ~bytes.ok THEN Err(bytes.err)
    ELSE LET json == JSONparse(bytes.val) IN
    IF ~json.ok THEN Err(json.err)
    ELSE LET parsed == AccessPayload(json.val) IN
    IF ~parsed.ok THEN Err(parsed.err)
    ELSE LET obj == parsed.val IN
    IF obj.iss.s # url.origin THEN Err("JWT issuer is incorrect.")
    ELSE IF ~includesAud(obj, aud) THEN Err("JWT audience is incorrect.")
    ELSE IF MathFloor(nowMs) * Milli > obj.exp.n THEN Err("JWT has expired.")
    ELSE IF /\ Truthy(Get(obj, "identity_nonce"))
            /\ MathCeil(nowMs) * Milli < obj.nbf.n
         THEN Err("JWT is not yet valid.")
    ELSE LET sig == base64URLDecode(ps[3]) IN
    IF ~sig.ok THEN Err(sig.err)
    ELSE Ok([payloadObj |-> obj, signature |-> sig.val,
             data |-> asciiToUint8Array(ps[1] \o <<Dot>> \o ps[2])])

\* validateAccessJWT_Claims with the floor of the clock in the not-before check
validateAccessJWT_Claims_NbfFloor(ps, nowMs, url, aud) ==
    LET bytes == base64URLDecode(ps[2]) IN
    IF ~bytes.ok THEN Err(bytes.err)
    ELSE LET json == JSONparse(bytes.val) IN
    IF ~json.ok THEN Err(json.err)
    ELSE LET parsed == AccessPayload(json.val) IN
    IF ~parsed.ok THEN Err(parsed.err)
    ELSE LET obj == parsed.val IN
    IF obj.iss.s # url.origin THEN Err("JWT issuer is incorrect.")
    ELSE IF ~includesAud(obj, aud) THEN Err("JWT audience is incorrect.")
    ELSE IF MathFloor(nowMs) * Milli >= obj.exp.n THEN Err("JWT has expired.")
    ELSE IF /\ Truthy(Get(obj, "identity_nonce"))
            /\ MathFloor(nowMs) * Milli < obj.nbf.n
         THEN Err("JWT is not yet valid.")
    ELSE LET sig == base64URLDecode(ps[3]) IN
    IF ~sig.ok THEN Err(sig.err)
    ELSE Ok([payloadObj |-> obj, signature |-> sig.val,
             data |-> asciiToUint8Array(ps[1] \o <<Dot>> \o ps[2])])

\* validateAccessJWT_Claims without the issuer check
validateAccessJWT_Claims_NoIssuer(ps, nowMs, url, aud) ==
    LET bytes == base64URLDecode(ps[2]) IN
    IF ~bytes.ok THEN Err(bytes.err)
    ELSE LET json == JSONparse(bytes.val) IN
    IF ~json.ok THEN Err(json.err)
    ELSE LET parsed == AccessPayload(json.val) IN
    IF ~parsed.ok THEN Err(parsed.err)
    ELSE LET obj == parsed.val IN
    IF ~includesAud(obj, aud) THEN Err("JWT audience is incorrect.")
    ELSE IF MathFloor(nowMs) * Milli >= obj.exp.n THEN Err("JWT has expired.")
    ELSE IF /\ Truthy(Get(obj, "identity_nonce"))
            /\ MathCeil(nowMs) * Milli < obj.nbf.n
         THEN Err("JWT is not yet valid.")
    ELSE LET sig == base64URLDecode(ps[3]) IN
    IF ~sig.ok THEN Err(sig.err)
    ELSE Ok([payloadObj |-> obj, signature |-> sig.val,
             data |-> asciiToUint8Array(ps[1] \o <<Dot>> \o ps[2])])

\* validateAccessJWT_Claims with <= for < in the not-before check
validateAccessJWT_Claims_NbfStrict(ps, nowMs, url, aud) ==
    LET bytes == base64URLDecode(ps[2]) IN
    IF ~bytes.ok THEN Err(bytes.err)
    ELSE LET json == JSONparse(bytes.val) IN
    IF ~json.ok THEN Err(json.err)
    ELSE LET parsed == AccessPayload(json.val) IN
    IF ~parsed.ok THEN Err(parsed.err)
    ELSE LET obj == parsed.val IN
    IF obj.iss.s # url.origin THEN Err("JWT issuer is incorrect.")
    ELSE IF ~includesAud(obj, aud) THEN Err("JWT audience is incorrect.")
    ELSE IF MathFloor(nowMs) * Milli >= obj.exp.n THEN Err("JWT has expired.")
    ELSE IF /\ Truthy(Get(obj, "identity_nonce"))
            /\ MathCeil(nowMs) * Milli <= obj.nbf.n
         THEN Err("JWT is not yet valid.")
    ELSE LET sig == base64URLDecode(ps[3]) IN
    IF ~sig.ok THEN Err(sig.err)
    ELSE Ok([payloadObj |-> obj, signature |-> sig.val,
             data |-> asciiToUint8Array(ps[1] \o <<Dot>> \o ps[2])])

\* validateAccessJWT from Date.now() to the call of crypto.subtle.verify
validateAccessJWT_Claims(ps, nowMs, url, aud) ==
    LET bytes == base64URLDecode(ps[2]) IN
    IF ~bytes.ok THEN Err(bytes.err)
    ELSE LET json == JSONparse(bytes.val) IN
    IF ~json.ok THEN Err(json.err)
    ELSE LET parsed == AccessPayload(json.val) IN
    IF ~parsed.ok THEN Err(parsed.err)
    ELSE LET obj == parsed.val IN
    IF obj.iss.s # url.origin THEN Err("JWT issuer is incorrect.")
    ELSE IF ~includesAud(obj, aud) THEN Err("JWT audience is incorrect.")
    ELSE IF MathFloor(nowMs) * Milli >= obj.exp.n THEN Err("JWT has expired.")
    ELSE IF /\ Truthy(Get(obj, "identity_nonce"))
            /\ MathCeil(nowMs) * Milli < obj.nbf.n
         THEN Err("JWT is not yet valid.")
    ELSE LET sig == base64URLDecode(ps[3]) IN
    IF ~sig.ok THEN Err(sig.err)
    ELSE Ok([payloadObj |-> obj, signature |-> sig.val,
             data |-> asciiToUint8Array(ps[1] \o <<Dot>> \o ps[2])])

\* ---------------------------------------------------------------- the state
VARIABLES
    accessTeamDomain,   \* closure of useCloudflareAccess: the team domain
    accessAud,          \* closure of useCloudflareAccess: the audience
    cvar,               \* c.var: the context variables of the request
    header,             \* the Cf-Access-Jwt-Assertion value of the request
    pc,                 \* where the handler of the request stands
    jwt,                \* locals of validateAccessJWT
    parts,
    kid,
    certsURL,
    certsResponse,
    key,
    unroundedSecondsSinceEpoch,
    payloadObj,
    verifyArgs,         \* signature and data handed to crypto.subtle.verify
    result,             \* what validateAccessJWT returned or threw
    fetchCalls,         \* the URLs fetch was called with
    importKeyCalls,     \* number of crypto.subtle.importKey calls
    verifyCalls,        \* number of crypto.subtle.verify calls
    nextCalls,          \* number of next() calls
    warned,             \* messages given to c.var.logger.warn
    captured,           \* errors given to c.var.sentry.captureException
    response            \* the HTTP response of the request

VARIABLES
    config,             \* the arguments of the call of useCloudflareAccess
    construction        \* how that call ended: "returned", or what it threw

locals ==
    <<jwt, parts, kid, certsURL, certsResponse, key, unroundedSecondsSinceEpoch,
      payloadObj, verifyArgs>>
closure == <<accessTeamDomain, accessAud>>
calls == <<fetchCalls, importKeyCalls, verifyCalls, nextCalls>>
sinks == <<warned, captured>>
construct == <<config, construction>>

VARIABLES
    reqs,               \* concurrent requests: header, locals and outcome of each
    keySet,             \* the body the certs endpoint serves, through the cache
    now                 \* what Date.now() reads

concurrent == <<reqs, keySet, now>>

VARIABLES
    procs,              \* processes that run a command under a ConcurrencyLock
    lockFiles           \* the files of the lock directory

locking == <<procs, lockFiles>>

VARIABLES
    options,            \* the useAuthOptions of a call of useAuth
    ctx,                \* c: the query and the headers of the request
    authPc,             \* where the handler of useAuth stands
    authNextCalls,      \* number of next() calls of that handler
    thrown              \* what that handler threw

authentication == <<options, ctx, authPc, authNextCalls, thrown>>

VARIABLES
    urlHeap,            \* the URL objects there are: the query pairs of each
    urlArg,             \* the argument of a call of redactUrl
    urlRet              \* the URL object that call returned

urls == <<urlHeap, urlArg, urlRet>>

VARIABLES
    app,                \* the handlers registered on a Hono app, in order
    honoReq,            \* the request given to app.fetch
    honoPc,             \* where app.fetch stands
    matched,            \* the registered handlers that match the request
    index,              \* position in matched of the handler that runs now
    ran,                \* the handlers that have run, in order
    suspended,          \* middlewares that wait in their await next()
    honoRes             \* c.res: the response of the request

hono == <<app, honoReq, honoPc, matched, index, ran, suspended, honoRes>>

VARIABLES
    state,              \* AxiomLogger: whether the state option (DO storage) is set
    logs,               \* AxiomLogger.logs: the buffer in memory
    flushTimeout,       \* AxiomLogger.flushTimeout: a timer handle, or 0 for null
    flushPromise,       \* AxiomLogger.flushPromise: a flush call, or 0 for null
    cfTrace,            \* whether this.cfTrace (or tags.cf.colo) is set
    storage,            \* the '__AXIOM_LOGS__' value of the DO storage
    timers,             \* the timer handles that setTimeout holds and has not fired
    handles,            \* number of timer handles handed out so far
    flushes,            \* the calls of flush that went past the skip test
    microtasks,         \* the continuations that are ready to run, in order
    gets,               \* the storage reads of _log that have not resolved
    ingested,           \* the bodies Axiom answered with an ok status
    logged,             \* number of _log calls so far
    manual,             \* number of flush calls made by the application
    caller              \* whether code of the application is running

logger ==
    <<state, logs, flushTimeout, flushPromise, cfTrace, storage, timers, handles,
      flushes, microtasks, gets, ingested, logged, manual, caller>>

VARIABLES
    ENVIRONMENT,        \* c.env.ENVIRONMENT
    reqPc,              \* how far the request is through the chain
    tx,                 \* c.var.tx: "none", "started" or "finished"
    hasLogger,          \* whether c.var.logger is set
    txWaitUntil,        \* c.var.txWaitUntil: promises, in the order pushed
    promises,           \* every promise made for the request, by number
    c_res,              \* c.res.status, 0 before there is a response
    c_error,            \* c.error
    waitUntil,          \* the promises passed to c.executionCtx.waitUntil
    requestLog,         \* whether logger.info was called with the request
    flushPc,            \* logger.flush() of waitAndFlush: "none", "called", "done"
    alive               \* whether the runtime still runs the invocation

middleware ==
    <<ENVIRONMENT, reqPc, tx, hasLogger, txWaitUntil, promises, c_res, c_error,
      waitUntil, requestLog, flushPc, alive>>

\* what runs in the worker besides the Access middleware and useAuth
worker == <<urls, hono, logger, middleware>>

\* the locks and useAuth at rest
ToolsUnused ==
    /\ procs = <<>>
    /\ lockFiles = {}

AuthUnused ==
    /\ options = Undefined
    /\ ctx = Undefined
    /\ authPc = "unused"
    /\ authNextCalls = 0
    /\ thrown = Undefined

UrlUnused ==
    /\ urlHeap = <<>>
    /\ urlArg = Undefined
    /\ urlRet = Undefined

HonoUnused ==
    /\ app = <<>>
    /\ honoReq = Undefined
    /\ honoPc = "unused"
    /\ matched = <<>>
    /\ index = 0
    /\ ran = <<>>
    /\ suspended = <<>>
    /\ honoRes = Undefined

LoggerUnused ==
    /\ state = FALSE
    /\ logs = <<>>
    /\ flushTimeout = 0
    /\ flushPromise = 0
    /\ cfTrace = FALSE
    /\ storage = Undefined
    /\ timers = {}
    /\ handles = 0
    /\ flushes = <<>>
    /\ microtasks = <<>>
    /\ gets = <<>>
    /\ ingested = <<>>
    /\ logged = 0
    /\ manual = 0
    /\ caller = FALSE

MiddlewareUnused ==
    /\ ENVIRONMENT = "unused"
    /\ reqPc = "unused"
    /\ tx = "none"
    /\ hasLogger = FALSE
    /\ txWaitUntil = <<>>
    /\ promises = <<>>
    /\ c_res = 0
    /\ c_error = Undefined
    /\ waitUntil = {}
    /\ requestLog = FALSE
    /\ flushPc = "none"
    /\ alive = FALSE

WorkerUnused ==
    /\ UrlUnused
    /\ HonoUnused
    /\ LoggerUnused
    /\ MiddlewareUnused

\* the state of everything but the Access middleware handling one request
others == <<construct, concurrent, locking, authentication, worker>>

vars == <<closure, cvar, header, pc, locals, result, calls, sinks, response, others>>

NoResponse ==
    Normal([status |-> 0, body |-> [success |-> FALSE, error |-> [message |-> ""]]])
Pending == Normal([ok |-> FALSE, err |-> "pending"])

\* the middlewares that may have run before: each may have set its variable
CVars == Normal({ [logger |-> Undefined, sentry |-> Undefined],
                  [logger |-> Str("AxiomLogger"), sentry |-> Str("Toucan")] })

Init ==
    /\ accessTeamDomain \in {TeamDomainOf(t) : t \in {TeamA, TeamB}}
    /\ accessAud = HexA
    /\ cvar \in CVars
    /\ header = Null
    /\ pc = "idle"
    /\ jwt = Undefined
    /\ parts = Undefined
    /\ kid = Undefined
    /\ certsURL = Undefined
    /\ certsResponse = Undefined
    /\ key = Undefined
    /\ unroundedSecondsSinceEpoch = Undefined
    /\ payloadObj = Undefined
    /\ verifyArgs = Undefined
    /\ result = Pending
    /\ fetchCalls = <<>>
    /\ importKeyCalls = 0
    /\ verifyCalls = 0
    /\ nextCalls = 0
    /\ warned = <<>>
    /\ captured = <<>>
    /\ response = NoResponse
    /\ config = [team |-> Str(accessTeamDomain[2]), audience |-> Str(accessAud)]
    /\ construction = "returned"
    /\ reqs = <<>>
    /\ keySet = Bytes(NoSig)
    /\ now = 0
    /\ ToolsUnused
    /\ AuthUnused
    /\ WorkerUnused

\* a request arrives at the middleware
Receive(h) ==
    /\ pc = "idle"
    /\ UNCHANGED others
    /\ header' = h
    /\ pc' = "start"
    /\ UNCHANGED <<closure, cvar, locals, result, calls, sinks, response>>

\* the request is over: its context and the locals of its handler are dropped
Finish ==
    /\ pc = "done"
    /\ UNCHANGED others
    /\ header' = Null
    /\ pc' = "idle"
    /\ jwt' = Undefined
    /\ parts' = Undefined
    /\ kid' = Undefined
    /\ certsURL' = Undefined
    /\ certsResponse' = Undefined
    /\ key' = Undefined
    /\ unroundedSecondsSinceEpoch' = Undefined
    /\ payloadObj' = Undefined
    /\ verifyArgs' = Undefined
    /\ result' = Pending
    /\ fetchCalls' = <<>>
    /\ importKeyCalls' = 0
    /\ verifyCalls' = 0
    /\ nextCalls' = 0
    /\ warned' = <<>>
    /\ captured' = <<>>
    /\ response' = NoResponse
    /\ UNCHANGED <<closure, cvar>>

\* throw newHTTPException(401, 'unauthorized'), answered by the onError hook
Throw401 ==
    LET res == useOnError(newHTTPException(401, "unauthorized")) IN
    /\ response' = [status |-> res.status, body |-> res.body]
    /\ pc' = "done"

\* the catch block of the middleware, rethrowing what it caught
Catch_Rethrow(e) ==
    LET res == useOnError([type |-> "Error", status |-> 0, message |-> e]) IN
    /\ result' = Err(e)
    /\ warned' = IF cvar.logger # Undefined
                 THEN Append(warned, <<"validateAccessJWT failed ", e>>)
                 ELSE warned
    /\ captured' = IF cvar.sentry # Undefined THEN Append(captured, e) ELSE captured
    /\ response' = [status |-> res.status, body |-> res.body]
    /\ pc' = "done"

\* the catch block of the middleware
Catch(e) ==
    /\ result' = Err(e)
    /\ warned' = IF cvar.logger # Undefined
                 THEN Append(warned, <<"validateAccessJWT failed ", e>>)
                 ELSE warned
    /\ captured' = IF cvar.sentry # Undefined THEN Append(captured, e) ELSE captured
    /\ Throw401

\* the middleware from its entry to the first await
Enter ==
    /\ pc = "start"
    /\ UNCHANGED others
    /\ IF ~hasValidJWT(header)
       THEN /\ Throw401
            /\ UNCHANGED <<locals, result, calls, sinks>>
       ELSE LET r == validateAccessJWT_Decode(header, accessTeamDomain) IN
            IF ~r.ok
            THEN /\ Catch(r.err)
                 /\ UNCHANGED <<locals, calls>>
            ELSE /\ jwt' = r.val.jwt
                 /\ parts' = r.val.parts
                 /\ kid' = r.val.kid
                 /\ certsURL' = r.val.certsURL
                 /\ fetchCalls' = Append(fetchCalls, URLtoString(r.val.certsURL))
                 /\ pc' = "fetch"
                 /\ UNCHANGED <<certsResponse, key, unroundedSecondsSinceEpoch,
                                payloadObj, verifyArgs, result, importKeyCalls,
                                verifyCalls, nextCalls, sinks, response>>
    /\ UNCHANGED <<closure, cvar, header>>

\* FetchSettles that calls fetch again, up to twice, when the promise rejects
FetchSettles_Retry(outcome) ==
    /\ pc = "fetch"
    /\ UNCHANGED others
    /\ IF ~outcome.ok /\ Len(fetchCalls) < 3
       THEN /\ fetchCalls' = Append(fetchCalls, URLtoString(certsURL))
            /\ UNCHANGED <<certsResponse, pc, result, sinks, response>>
       ELSE IF ~outcome.ok
       THEN /\ Catch(outcome.err)
            /\ UNCHANGED <<certsResponse, fetchCalls>>
       ELSE /\ certsResponse' = outcome.val
            /\ pc' = "json"
            /\ UNCHANGED <<result, sinks, response, fetchCalls>>
    /\ UNCHANGED <<closure, cvar, header, jwt, parts, kid, certsURL, key,
                   unroundedSecondsSinceEpoch, payloadObj, verifyArgs,
                   importKeyCalls, verifyCalls, nextCalls>>

\* the promise of fetch settles
FetchSettles(outcome) ==
    /\ pc = "fetch"
    /\ UNCHANGED others
    /\ IF ~outcome.ok
       THEN /\ Catch(outcome.err)
            /\ UNCHANGED certsResponse
       ELSE /\ certsResponse' = outcome.val
            /\ pc' = "json"
            /\ UNCHANGED <<result, sinks, response>>
    /\ UNCHANGED <<closure, cvar, header, jwt, parts, kid, certsURL, key,
                   unroundedSecondsSinceEpoch, payloadObj, verifyArgs, calls>>

\* certsResponse.json() settles; on to the call of importKey
JsonSettles ==
    /\ pc = "json"
    /\ UNCHANGED others
    /\ LET json == JSONparse(certsResponse.body)
           r == IF json.ok THEN validateAccessJWT_FindKey(json.val, kid) ELSE json
       IN  IF ~r.ok
           THEN /\ Catch(r.err)
                /\ UNCHANGED <<key, importKeyCalls>>
           ELSE /\ key' = r.val
                /\ importKeyCalls' = importKeyCalls + 1
                /\ pc' = "importKey"
                /\ UNCHANGED <<result, sinks, response>>
    /\ UNCHANGED <<closure, cvar, header, jwt, parts, kid, certsURL, certsResponse,
                   unroundedSecondsSinceEpoch, payloadObj, verifyArgs,
                   fetchCalls, verifyCalls, nextCalls>>

\* importKey settles; Date.now() reads t; on to the call of verify
ImportKeySettles(t) ==
    /\ pc = "importKey"
    /\ UNCHANGED others
    /\ LET imported == importKey(key) IN
       IF ~imported.ok
       THEN /\ Catch(imported.err)
            /\ UNCHANGED <<key, unroundedSecondsSinceEpoch, payloadObj, verifyArgs,
                           verifyCalls>>
       ELSE /\ key' = imported.val
            /\ unroundedSecondsSinceEpoch' = Num(t)
            /\ LET r == validateAccessJWT_Claims(parts, t, certsURL, accessAud) IN
               IF ~r.ok
               THEN /\ Catch(r.err)
                    /\ UNCHANGED <<payloadObj, verifyArgs, verifyCalls>>
               ELSE /\ payloadObj' = r.val.payloadObj
                    /\ verifyArgs' = [signature |-> r.val.signature, data |-> r.val.data]
                    /\ verifyCalls' = verifyCalls + 1
                    /\ pc' = "verify"
                    /\ UNCHANGED <<result, sinks, response>>
    /\ UNCHANGED <<closure, cvar, header, jwt, parts, kid, certsURL, certsResponse,
                   fetchCalls, importKeyCalls, nextCalls>>

\* verify settles; validateAccessJWT returns and the middleware calls next()
VerifySettles ==
    /\ pc = "verify"
    /\ UNCHANGED others
    /\ IF ~cryptoVerify(key, verifyArgs.signature, verifyArgs.data)
       THEN /\ Catch("Could not verify JWT.")
            /\ UNCHANGED nextCalls
       ELSE /\ result' = Ok([jwt |-> jwt, payload |-> payloadObj])
            /\ nextCalls' = nextCalls + 1
            /\ pc' = "next"
            /\ UNCHANGED <<sinks, response>>
    /\ UNCHANGED <<closure, cvar, header, locals, fetchCalls, importKeyCalls,
                   verifyCalls>>

\* the downstream handlers answer
NextSettles ==
    /\ pc = "next"
    /\ UNCHANGED others
    /\ response' = [status |-> 200,
                    body |-> [success |-> TRUE, error |-> [message |-> ""]]]
    /\ pc' = "done"
    /\ UNCHANGED <<closure, cvar, header, locals, result, calls, sinks>>

Next ==
    \/ \E h \in HeaderValues : Receive(h)
    \/ Enter
    \/ \E outcome \in FetchOutcomes : FetchSettles(outcome)
    \/ JsonSettles
    \/ \E t \in Clock : ImportKeySettles(t)
    \/ VerifySettles
    \/ NextSettles
    \/ Finish

Spec == Init /\ [][Next]_vars

\* -------------------------------------------- the call of useCloudflareAccess
\* a team in capitals, which the pattern of AccessTeam, without the i flag,
\* does not match
UpperTeam == "ACME"

\* 64 hex characters in capitals
UpperHex == "A1A1"

\* arguments of the call; an environment variable that is not set reads as
\* undefined
Teams == {Str(TeamA), Str(BadTeam), Str(UpperTeam), Str(""), Undefined}
Audiences == {Str(HexA), Str(NotHex), Str(UpperHex), Str(""), Undefined}
Configs == Normal([team : Teams, audience : Audiences])

\* no call of useCloudflareAccess has returned: there is no handler, and the
\* closure variables are not bound
InitUnbuilt ==
    /\ config \in Configs
    /\ construction = "pending"
    /\ accessTeamDomain = <<>>
    /\ accessAud = ""
    /\ cvar = [logger |-> Str("AxiomLogger"), sentry |-> Str("Toucan")]
    /\ header = Null
    /\ pc = "unbuilt"
    /\ jwt = Undefined
    /\ parts = Undefined
    /\ kid = Undefined
    /\ certsURL = Undefined
    /\ certsResponse = Undefined
    /\ key = Undefined
    /\ unroundedSecondsSinceEpoch = Undefined
    /\ payloadObj = Undefined
    /\ verifyArgs = Undefined
    /\ result = Pending
    /\ fetchCalls = <<>>
    /\ importKeyCalls = 0
    /\ verifyCalls = 0
    /\ nextCalls = 0
    /\ warned = <<>>
    /\ captured = <<>>
    /\ response = NoResponse
    /\ reqs = <<>>
    /\ keySet = Bytes(NoSig)
    /\ now = 0
    /\ ToolsUnused
    /\ AuthUnused
    /\ WorkerUnused

\* useCloudflareAccess that hands out the handler without parsing its arguments
useCloudflareAccess_Deferred ==
    /\ construction = "pending"
    /\ construction' = "returned"
    /\ accessTeamDomain' = TeamDomainOf(IF config.team.ty = "str" THEN config.team.s ELSE "")
    /\ accessAud' = IF config.audience.ty = "str" THEN config.audience.s ELSE ""
    /\ pc' = "idle"
    /\ UNCHANGED <<config, cvar, header, locals, result, calls, sinks, response,
                   concurrent, locking, authentication, worker>>

\* the call useCloudflareAccess({ team, audience }), up to its return
useCloudflareAccess ==
    /\ construction = "pending"
    /\ IF ~AccessTeam(config.team)
       THEN /\ construction' = "ZodError: AccessTeam"
            /\ UNCHANGED <<closure, pc>>
       ELSE IF ~AccessTeamDomain(Str(TeamDomainOf(config.team.s)))
       THEN /\ construction' = "ZodError: AccessTeamDomain"
            /\ UNCHANGED <<closure, pc>>
       ELSE IF ~AccessAudience(config.audience)
       THEN /\ construction' = "ZodError: AccessAudience"
            /\ UNCHANGED <<closure, pc>>
       ELSE /\ construction' = "returned"
            /\ accessTeamDomain' = TeamDomainOf(config.team.s)
            /\ accessAud' = config.audience.s
            /\ pc' = "idle"
    /\ UNCHANGED <<config, cvar, header, locals, result, calls, sinks, response,
                   concurrent, locking, authentication, worker>>

NextConstruct ==
    \/ useCloudflareAccess
    \/ Next

SpecConstruct == InitUnbuilt /\ [][NextConstruct]_vars

\* the Access middleware at rest, with no request
AccessUnused ==
    /\ accessTeamDomain = TeamDomainOf(TeamA)
    /\ accessAud = HexA
    /\ cvar = [logger |-> Undefined, sentry |-> Undefined]
    /\ header = Null
    /\ pc = "unused"
    /\ jwt = Undefined
    /\ parts = Undefined
    /\ kid = Undefined
    /\ certsURL = Undefined
    /\ certsResponse = Undefined
    /\ key = Undefined
    /\ unroundedSecondsSinceEpoch = Undefined
    /\ payloadObj = Undefined
    /\ verifyArgs = Undefined
    /\ result = Pending
    /\ fetchCalls = <<>>
    /\ importKeyCalls = 0
    /\ verifyCalls = 0
    /\ nextCalls = 0
    /\ warned = <<>>
    /\ captured = <<>>
    /\ response = NoResponse
    /\ config = [team |-> Str(TeamA), audience |-> Str(HexA)]
    /\ construction = "returned"
    /\ reqs = <<>>
    /\ keySet = Bytes(NoSig)
    /\ now = 0

access ==
    <<closure, cvar, header, pc, locals, result, calls, sinks, response, construct,
      concurrent>>

\* ------------------------------------------------------------ ConcurrencyLock
\* constructor(name, cfg, concurrency = 4)
Concurrency == 4

\* processes started at once that take a lock of the same name
Procs == 1..(Concurrency + MoreProcs)

InitLock ==
    /\ AccessUnused
    /\ AuthUnused
    /\ WorkerUnused
    /\ procs = [p \in Procs |-> "created"]
    /\ lockFiles = {}

\* await lock.acquire(): the body returns at its first statement; the
\* statements after it, which count and write the lock files, never run
acquire(p) ==
    /\ procs[p] = "created"
    /\ procs' = [procs EXCEPT ![p] = "acquired"]
    /\ UNCHANGED <<lockFiles, access, authentication, worker>>

\* the shell command of the process ends, well or not, and the finally block
\* is entered
CommandSettles(p) ==
    /\ procs[p] = "acquired"
    /\ procs' = [procs EXCEPT ![p] = "finally"]
    /\ UNCHANGED <<lockFiles, access, authentication, worker>>

\* await lock.release(): the body returns at its first statement; the rm after
\* it never runs
release(p) ==
    /\ procs[p] = "finally"
    /\ procs' = [procs EXCEPT ![p] = "released"]
    /\ UNCHANGED <<lockFiles, access, authentication, worker>>

NextLock ==
    \E p \in Procs :
        \/ acquire(p)
        \/ CommandSettles(p)
        \/ release(p)

SpecLock == InitLock /\ [][NextLock]_vars

\* -------------------------------------------------------------------- useAuth
\* strings of useAuth are sequences of characters
Bearer == <<"B", "e", "a", "r", "e", "r", " ">>

\* String.prototype.startsWith
startsWith(s, prefix) ==
    Len(s) >= Len(prefix) /\ SubSeq(s, 1, Len(prefix)) = prefix

\* s.split(sep).length for a separator that is not empty: one more than the
\* occurrences of sep found from left to right
RECURSIVE splitLength(_, _)
splitLength(s, sep) ==
    IF Len(s) < Len(sep) THEN 1
    ELSE IF SubSeq(s, 1, Len(sep)) = sep
         THEN 1 + splitLength(SubSeq(s, Len(sep) + 1, Len(s)), sep)
         ELSE splitLength(Tail(s), sep)

\* String.prototype.substring(n)
substring(s, n) == SubSeq(s, n + 1, Len(s))

\* String.prototype.trim
RECURSIVE trimStart(_)
trimStart(s) == IF s # <<>> /\ Head(s) = " " THEN trimStart(Tail(s)) ELSE s
RECURSIVE trimEnd(_)
trimEnd(s) ==
    IF s # <<>> /\ s[Len(s)] = " " THEN trimEnd(SubSeq(s, 1, Len(s) - 1)) ELSE s
trim(s) == trimEnd(trimStart(s))

\* typeof token === 'string' ? [token] : token
tokensRaw(opts) == IF opts.token.ty = "str" THEN <<opts.token>> ELSE opts.token.a

\* z.array(z.string().min(1)).parse
TokensParse(raw) ==
    IF \A i \in DOMAIN raw : raw[i].ty = "str" /\ Len(raw[i].s) >= 1 THEN Ok(raw)
    ELSE Err("ZodError: useAuth token")

\* tokens.some((t) => t === v)
some(tokens, v) == \E i \in DOMAIN tokens : tokens[i] = v

\* c.req.header(h)
reqHeader(c, h) == IF h \in DOMAIN c.header THEN c.header[h] ELSE Undefined

\* !v of a header value: it is undefined or the empty string
Falsy(v) == v = Undefined \/ v.s = <<>>

checkQuery(tokens, c) == some(tokens, Get(c.query, "key"))

checkHeader(tokens, c, h) == some(tokens, reqHeader(c, h))

\* checkBearer that compares the rest of the header as it stands, untrimmed
checkBearer_NoTrim(tokens, c) ==
    LET authHeader == reqHeader(c, "Authorization") IN
    IF Falsy(authHeader) \/ ~startsWith(authHeader.s, Bearer) THEN FALSE
    ELSE IF splitLength(authHeader.s, Bearer) # 2 THEN FALSE
    ELSE some(tokens, Str(substring(authHeader.s, Len(Bearer))))

checkBearer(tokens, c) ==
    LET authHeader == reqHeader(c, "Authorization") IN
    IF Falsy(authHeader) \/ ~startsWith(authHeader.s, Bearer) THEN FALSE
    ELSE IF splitLength(authHeader.s, Bearer) # 2 THEN FALSE
    ELSE some(tokens, Str(trim(substring(authHeader.s, Len(Bearer)))))

\* the handler of useAuth up to await next(): what it throws, if anything
useAuthHandler(opts, c) ==
    LET parsed == TokensParse(tokensRaw(opts)) IN
    IF ~parsed.ok THEN [type |-> "ZodError", status |-> 0, message |-> parsed.err]
    ELSE LET tokens == parsed.val
             names == IF opts.headers # Undefined /\ Len(opts.headers.a) > 0
                      THEN opts.headers.a ELSE <<>>
             checkers ==
                 (IF opts.queryKey THEN <<checkQuery(tokens, c)>> ELSE <<>>)
                 \o [i \in DOMAIN names |-> checkHeader(tokens, c, names[i])]
                 \o (IF opts.bearerAuth THEN <<checkBearer(tokens, c)>> ELSE <<>>)
         IN  IF Len(checkers) = 0
             THEN newHTTPException(500, "no auth methods enabled")
             ELSE IF ~(\E i \in DOMAIN checkers : checkers[i])
             THEN newHTTPException(401, "unauthorized")
             ELSE Undefined

\* tokens of the configuration: plain, with a leading blank, holding the word
\* of the bearer scheme, and empty
TokenX == <<"x">>
TokenY == <<"y">>
TokenConfigs ==
    { Str(TokenX),
      Arr(<<Str(TokenX), Str(TokenY)>>),
      Arr(<<>>),
      Str(<<" ">> \o TokenX),
      Str(Bearer \o TokenX),
      Str(<<>>),
      Arr(<<Str(TokenX), Str(<<>>)>>) }

HeaderLists ==
    {Undefined, Arr(<<>>), Arr(<<"x-api-key">>), Arr(<<"x-api-key", "x-other">>)}

AuthOptions ==
    Normal([token : TokenConfigs, headers : HeaderLists, queryKey : BOOLEAN,
            bearerAuth : BOOLEAN])

\* values of the Authorization header
Authorizations ==
    { Undefined,
      Str(<<>>),
      Str(Bearer \o TokenX),
      Str(Bearer \o <<"z">>),
      Str(Bearer \o <<" ">> \o TokenX),
      Str(Bearer \o <<" ">> \o TokenY \o <<" ">>),
      Str(<<"b", "e", "a", "r", "e", "r", " ">> \o TokenX),
      Str(TokenX),
      Str(Bearer \o Bearer \o TokenX),
      Str(TokenY \o Bearer \o TokenX),
      Str(Bearer) }

AuthRequests ==
    Normal({ [query |-> q, header |-> h] :
        q \in {[other |-> Str(TokenX)], [key |-> Str(TokenX)], [key |-> Str(<<"z">>)]},
        h \in [{"Authorization"} -> Authorizations \ {Undefined}]
              \cup { [n \in ns |-> Str(TokenY)] : ns \in SUBSET {"x-api-key", "x-other"} }
              \cup { [n \in {"x-api-key"} |-> v] : v \in {Str(TokenX), Str(<<"z">>)} } })

InitAuth ==
    /\ AccessUnused
    /\ ToolsUnused
    /\ WorkerUnused
    /\ options \in AuthOptions
    /\ ctx = Undefined
    /\ authPc = "idle"
    /\ authNextCalls = 0
    /\ thrown = Undefined

\* a request arrives at the handler useAuth(options) returned
AuthReceive(c) ==
    /\ authPc = "idle"
    /\ ctx' = c
    /\ authPc' = "start"
    /\ UNCHANGED <<options, authNextCalls, thrown, access, locking, worker>>

\* the handler runs: it throws, or it calls next()
useAuth ==
    /\ authPc = "start"
    /\ LET e == useAuthHandler(options, ctx) IN
       IF e # Undefined
       THEN /\ thrown' = e
            /\ authPc' = "done"
            /\ UNCHANGED authNextCalls
       ELSE /\ authNextCalls' = authNextCalls + 1
            /\ authPc' = "next"
            /\ UNCHANGED thrown
    /\ UNCHANGED <<options, ctx, access, locking, worker>>

\* the downstream handlers answer
AuthNextSettles ==
    /\ authPc = "next"
    /\ authPc' = "done"
    /\ UNCHANGED <<options, ctx, authNextCalls, thrown, access, locking, worker>>

NextAuth ==
    \/ \E c \in AuthRequests : AuthReceive(c)
    \/ useAuth
    \/ AuthNextSettles

SpecAuth == InitAuth /\ [][NextAuth]_vars

\* ------------------------------------------------------- concurrent requests
\* validateAccessJWT run from its first line to its last, with the outcome of
\* the certs fetch and the reading of the clock given
validateAccessJWT(h, teamDomain, aud, outcome, t) ==
    LET d == validateAccessJWT_Decode(h, teamDomain) IN
    IF ~d.ok THEN d
    ELSE IF ~outcome.ok THEN outcome
    ELSE LET json == JSONparse(outcome.val.body) IN
    IF ~json.ok THEN json
    ELSE LET jwk == validateAccessJWT_FindKey(json.val, d.val.kid) IN
    IF ~jwk.ok THEN jwk
    ELSE LET imported == importKey(jwk.val) IN
    IF ~imported.ok THEN imported
    ELSE LET c == validateAccessJWT_Claims(d.val.parts, t, d.val.certsURL, aud) IN
    IF ~c.ok THEN c
    ELSE IF ~cryptoVerify(imported.val, c.val.signature, c.val.data)
         THEN Err("Could not verify JWT.")
    ELSE Ok([jwt |-> d.val.jwt, payload |-> c.val.payloadObj])

Requests == 1..MaxRequests

\* the Cf-Access-Jwt-Assertion value of a token signed by the key of modulus n
Token(h, p, n) ==
    LET hs == Seg(JsonText(h))
        ps == Seg(JsonText(Obj(p)))
    IN  Str(Join3(hs, ps, Seg(Bytes(Sign(n, asciiToUint8Array(hs \o <<Dot>> \o ps))))))

\* a user token and a service token under either kid, a token that expires at
\* second 2, one signed by the wrong key, one of the other team, and no token
ConcurrentHeaders ==
    Normal({ Token(HeaderJSON(HexA), BaseUser, "N1"),
             Token(HeaderJSON(HexB), BaseService, "N2"),
             Token(HeaderJSON(HexA), With(BaseUser, "exp", Num(2 * Milli)), "N1"),
             Token(HeaderJSON(HexA), BaseService, "N2"),
             Token(HeaderJSON(HexB), With(BaseUser, "iss", Str(TeamDomainOf(TeamB))), "N2"),
             Null })

\* what the certs endpoint serves: both keys, or the second key only
ConcurrentKeySets ==
    Normal({ JsonText(Obj(BaseBody)),
             JsonText(Obj(CertsBody(<<Jwk(HexB, "sig", "N2")>>))) })

ConcurrentClock == Normal({1 * Milli + 500, 2 * Milli})

\* the locals of a handler that has not run
NoRequest ==
    Normal([pc |-> "idle", header |-> Null, parts |-> <<>>, kid |-> Undefined,
            certsURL |-> Undefined, certsResponse |-> Undefined, key |-> Undefined,
            verifyArgs |-> Undefined, result |-> Pending, fetchCalls |-> 0,
            nextCalls |-> 0])

InitConcurrent ==
    /\ accessTeamDomain = TeamDomainOf(TeamA)
    /\ accessAud = HexA
    /\ cvar = [logger |-> Undefined, sentry |-> Undefined]
    /\ header = Null
    /\ pc = "concurrent"
    /\ jwt = Undefined
    /\ parts = Undefined
    /\ kid = Undefined
    /\ certsURL = Undefined
    /\ certsResponse = Undefined
    /\ key = Undefined
    /\ unroundedSecondsSinceEpoch = Undefined
    /\ payloadObj = Undefined
    /\ verifyArgs = Undefined
    /\ result = Pending
    /\ fetchCalls = <<>>
    /\ importKeyCalls = 0
    /\ verifyCalls = 0
    /\ nextCalls = 0
    /\ warned = <<>>
    /\ captured = <<>>
    /\ response = NoResponse
    /\ config = [team |-> Str(TeamA), audience |-> Str(HexA)]
    /\ construction = "returned"
    /\ reqs = [r \in Requests |-> NoRequest]
    /\ keySet \in ConcurrentKeySets
    /\ now \in ConcurrentClock
    /\ ToolsUnused
    /\ AuthUnused
    /\ WorkerUnused

\* everything a step of one of the concurrent handlers leaves alone
OneRequestIdle ==
    UNCHANGED <<closure, cvar, header, pc, locals, result, calls, sinks, response,
                construct, keySet, now, locking, authentication, worker>>

\* request r arrives at the middleware
ConcurrentReceive(r, h) ==
    /\ reqs[r].pc = "idle"
    /\ reqs' = [reqs EXCEPT ![r].header = h, ![r].pc = "start"]
    /\ OneRequestIdle

\* the handler of request r from its entry to its first await
ConcurrentEnter(r) ==
    /\ reqs[r].pc = "start"
    /\ IF ~hasValidJWT(reqs[r].header)
       THEN reqs' = [reqs EXCEPT ![r].pc = "done", ![r].result = Err("unauthorized")]
       ELSE LET d == validateAccessJWT_Decode(reqs[r].header, accessTeamDomain) IN
            IF ~d.ok
            THEN reqs' = [reqs EXCEPT ![r].pc = "done", ![r].result = d]
            ELSE reqs' = [reqs EXCEPT ![r].pc = "fetch",
                                      ![r].parts = d.val.parts,
                                      ![r].kid = Str(d.val.kid),
                                      ![r].certsURL = d.val.certsURL,
                                      ![r].fetchCalls = @ + 1]
    /\ OneRequestIdle

\* the promise of the fetch of request r settles with what the endpoint serves
ConcurrentFetchSettles(r) ==
    /\ reqs[r].pc = "fetch"
    /\ reqs' = [reqs EXCEPT ![r].pc = "json",
                            ![r].certsResponse = [status |-> 200, body |-> keySet]]
    /\ OneRequestIdle

\* ConcurrentJsonSettles with kid in a variable of the module, which the
\* handler that entered since has overwritten
ConcurrentJsonSettles_SharedKid(r) ==
    /\ reqs[r].pc = "json"
    /\ LET later == {q \in Requests \ {r} : reqs[q].kid # Undefined}
           k == IF later = {} THEN reqs[r].kid.s
                ELSE reqs[CHOOSE q \in later : TRUE].kid.s
           json == JSONparse(reqs[r].certsResponse.body)
           jwk == IF json.ok THEN validateAccessJWT_FindKey(json.val, k) ELSE json
       IN  IF ~jwk.ok
           THEN reqs' = [reqs EXCEPT ![r].pc = "done", ![r].result = jwk]
           ELSE reqs' = [reqs EXCEPT ![r].pc = "importKey", ![r].key = jwk.val]
    /\ OneRequestIdle

\* certsResponse.json() of request r settles; on to the call of importKey
ConcurrentJsonSettles(r) ==
    /\ reqs[r].pc = "json"
    /\ LET json == JSONparse(reqs[r].certsResponse.body)
           jwk == IF json.ok THEN validateAccessJWT_FindKey(json.val, reqs[r].kid.s)
                  ELSE json
       IN  IF ~jwk.ok
           THEN reqs' = [reqs EXCEPT ![r].pc = "done", ![r].result = jwk]
           ELSE reqs' = [reqs EXCEPT ![r].pc = "importKey", ![r].key = jwk.val]
    /\ OneRequestIdle

\* importKey of request r settles; the clock is read; on to the call of verify
ConcurrentImportKeySettles(r) ==
    /\ reqs[r].pc = "importKey"
    /\ LET imported == importKey(reqs[r].key)
           c == validateAccessJWT_Claims(reqs[r].parts, now, reqs[r].certsURL, accessAud)
       IN  IF ~imported.ok
           THEN reqs' = [reqs EXCEPT ![r].pc = "done", ![r].result = imported]
           ELSE IF ~c.ok
           THEN reqs' = [reqs EXCEPT ![r].pc = "done", ![r].result = c]
           ELSE reqs' = [reqs EXCEPT ![r].pc = "verify",
                                     ![r].key = imported.val,
                                     ![r].verifyArgs = c.val]
    /\ OneRequestIdle

\* verify of request r settles; validateAccessJWT returns and next() is called
ConcurrentVerifySettles(r) ==
    /\ reqs[r].pc = "verify"
    /\ IF ~cryptoVerify(reqs[r].key, reqs[r].verifyArgs.signature, reqs[r].verifyArgs.data)
       THEN reqs' = [reqs EXCEPT ![r].pc = "done",
                                 ![r].result = Err("Could not verify JWT.")]
       ELSE reqs' = [reqs EXCEPT ![r].pc = "done",
                                 ![r].result = Ok([jwt |-> reqs[r].header.s,
                                                   payload |-> reqs[r].verifyArgs.payloadObj]),
                                 ![r].nextCalls = @ + 1]
    /\ OneRequestIdle

NextConcurrent ==
    \E r \in Requests :
        \/ \E h \in ConcurrentHeaders : ConcurrentReceive(r, h)
        \/ ConcurrentEnter(r)
        \/ ConcurrentFetchSettles(r)
        \/ ConcurrentJsonSettles(r)
        \/ ConcurrentImportKeySettles(r)
        \/ ConcurrentVerifySettles(r)

SpecConcurrent == InitConcurrent /\ [][NextConcurrent]_vars

\* ------------------------------------------------------------------ redactUrl
\* a query parameter is a pair of a name, a sequence of characters, and a
\* value; a URL object is its list of query parameters, as url.searchParams
\* decodes them
Param(n, v) == [name |-> n, value |-> v]

UpperCase == <<"A", "E", "I", "K", "P", "Y">>
LowerCase == <<"a", "e", "i", "k", "p", "y">>

\* String.prototype.toLowerCase
toLowerCase(s) ==
    [i \in DOMAIN s |->
        IF \E j \in DOMAIN UpperCase : UpperCase[j] = s[i]
        THEN LowerCase[CHOOSE j \in DOMAIN UpperCase : UpperCase[j] = s[i]]
        ELSE s[i]]

\* the array literal ['key', 'apiKey', 'api_key']
RedactedNames ==
    Normal({ <<"k", "e", "y">>,
             <<"a", "p", "i", "K", "e", "y">>,
             <<"a", "p", "i", "_", "k", "e", "y">> })

\* URLSearchParams.set(name, value): the first pair of that name takes the
\* value and the later pairs of that name are removed; with no pair of that
\* name one is appended
searchParams_set(list, n, v) ==
    IF \A i \in DOMAIN list : list[i].name # n
    THEN Append(list, Param(n, v))
    ELSE LET i == CHOOSE k \in DOMAIN list :
                      /\ list[k].name = n
                      /\ \A j \in 1..(k - 1) : list[j].name # n
         IN  SubSeq(list, 1, i - 1) \o <<Param(n, v)>>
                \o SelectSeq(SubSeq(list, i + 1, Len(list)), LAMBDA e : e.name # n)

\* the for loop over Array.from(url.searchParams), from pair i of the snapshot
RECURSIVE redactLoop(_, _, _)
redactLoop(snapshot, i, list) ==
    IF i > Len(snapshot) THEN list
    ELSE redactLoop(snapshot, i + 1,
             IF toLowerCase(snapshot[i].name) \in RedactedNames
             THEN searchParams_set(list, snapshot[i].name, "REDACTED")
             ELSE list)

\* new URL(_url) of a string, new URL(_url.toString()) of a URL object: a new
\* object in both cases.  Yields the heap and the reference of the object.
newURL(h, a) ==
    LET list == IF a.ty = "string" THEN a.s ELSE h[a.ref]
    IN  [heap |-> Append(h, list), ref |-> Len(h) + 1]

ParamNames ==
    Normal({ <<"k", "e", "y">>, <<"K", "E", "Y">>,
             <<"a", "p", "i", "K", "e", "y">>, <<"a", "p", "i", "k", "e", "y">>,
             <<"a", "p", "i", "_", "k", "e", "y">>, <<"A", "p", "i", "_", "K", "e", "y">>,
             <<"q">>, <<"p", "a", "g", "e">> })
ParamValues == {"s3cret", "2"}

RECURSIVE ListsUpTo(_, _)
ListsUpTo(S, n) ==
    IF n = 0 THEN {<<>>}
    ELSE LET shorter == ListsUpTo(S, n - 1)
         IN  shorter \cup { Append(l, e) : l \in { x \in shorter : Len(x) = n - 1 }, e \in S }

Queries == Normal(ListsUpTo({ Param(n, v) : n \in ParamNames, v \in ParamValues }, MaxParams))

\* the access middleware, the locks and useAuth at rest
rest == <<access, locking, authentication, middleware>>

RestUnused ==
    /\ AccessUnused
    /\ ToolsUnused
    /\ AuthUnused
    /\ MiddlewareUnused

\* a caller holds a URL string, or a URL object; of the object, s is what
\* toString() reads when the call is made
InitUrl ==
    /\ RestUnused
    /\ HonoUnused
    /\ LoggerUnused
    /\ \E q \in Queries :
          \/ /\ urlHeap = <<>>
             /\ urlArg = [ty |-> "string", s |-> q]
          \/ /\ urlHeap = <<q>>
             /\ urlArg = [ty |-> "URL", ref |-> 1, s |-> q]
    /\ urlRet = Undefined

\* the call redactUrl(_url), up to its return
redactUrl ==
    /\ urlRet = Undefined
    /\ LET made == newURL(urlHeap, urlArg)
           url == made.ref
           snapshot == made.heap[url]
       IN  /\ urlHeap' = [made.heap EXCEPT ![url] = redactLoop(snapshot, 1, snapshot)]
           /\ urlRet' = [ty |-> "URL", ref |-> url]
    /\ UNCHANGED <<urlArg, rest, hono, logger>>

NextUrl ==
    \/ redactUrl

SpecUrl == InitUrl /\ [][NextUrl]_vars

\* ------------------------------------------------------- Hono middleware chain
\* the handlers the tests register: app.use(handler), app.use('*', handler),
\* app.use('/*', handler) and app.get('/foo', handler); a handler awaits
\* next(), returns c.text(...) without calling next(), or throws an Error
NoPath == "(none)"
Registrations ==
    Normal({ [method |-> m, path |-> p, does |-> b] :
                m \in {"ALL"}, p \in {NoPath, "*", "/*"}, b \in {"next", "respond", "throw"} }
           \cup { [method |-> "GET", path |-> "/foo", does |-> b] :
                b \in {"next", "respond", "throw"} })

Apps == Normal(ListsUpTo(Registrations, MaxChain))

\* the request paths of the tests, asked with GET
RequestPaths == {"/", "/foo", "/foo/bar"}

\* whether a registered handler is on the route of a request
RouteMatches(h, r) ==
    /\ h.method \in {"ALL", r.method}
    /\ \/ h.path \in {NoPath, "*", "/*"}
       \/ h.path = r.path

RECURSIVE IndicesWhere(_, _, _)
IndicesWhere(a, r, i) ==
    IF i > Len(a) THEN <<>>
    ELSE (IF RouteMatches(a[i], r) THEN <<i>> ELSE <<>>) \o IndicesWhere(a, r, i + 1)

\* c.text(text, status)
text(t, st) == [status |-> st, text |-> t]

\* the response of handler i of the app
ResponseOf(i) == text(<<"handler", i>>, 200)

\* the default notFound and onError handlers
notFoundHandler == Normal(text("404 Not Found", 404))
errorHandler == Normal(text("Internal Server Error", 500))

InitHono ==
    /\ RestUnused
    /\ UrlUnused
    /\ LoggerUnused
    /\ app \in Apps
    /\ honoReq = Undefined
    /\ honoPc = "idle"
    /\ matched = <<>>
    /\ index = 0
    /\ ran = <<>>
    /\ suspended = <<>>
    /\ honoRes = Undefined

\* app.fetch(new Request(`http://localhost${path}`)): the router collects the
\* handlers on the route of the request, in the order of registration
app_fetch(path) ==
    /\ honoPc = "idle"
    /\ honoReq' = [method |-> "GET", path |-> path]
    /\ matched' = IndicesWhere(app, honoReq', 1)
    /\ index' = 1
    /\ honoPc' = "dispatch"
    /\ UNCHANGED <<app, ran, suspended, honoRes, rest, urls, logger>>

\* dispatch that goes on to the next handler after a handler has answered
dispatch_RunOn ==
    /\ honoPc = "dispatch"
    /\ IF index > Len(matched)
       THEN /\ honoRes' = IF honoRes = Undefined THEN notFoundHandler ELSE honoRes
            /\ honoPc' = "return"
            /\ UNCHANGED <<ran, suspended, index>>
       ELSE LET i == matched[index] IN
            /\ ran' = Append(ran, i)
            /\ CASE app[i].does = "next" ->
                       /\ suspended' = Append(suspended, i)
                       /\ index' = index + 1
                       /\ UNCHANGED <<honoRes, honoPc>>
                 [] app[i].does = "respond" ->
                       /\ honoRes' = ResponseOf(i)
                       /\ index' = index + 1
                       /\ UNCHANGED <<suspended, honoPc>>
                 [] app[i].does = "throw" ->
                       /\ honoRes' = errorHandler
                       /\ honoPc' = "return"
                       /\ UNCHANGED <<suspended, index>>
    /\ UNCHANGED <<app, honoReq, matched, rest, urls, logger>>

\* dispatch(i): the handler at position index of the route runs, up to its
\* await next(), its return or its throw; past the last handler the notFound
\* handler answers a request that has no response yet
dispatch ==
    /\ honoPc = "dispatch"
    /\ IF index > Len(matched)
       THEN /\ honoRes' = IF honoRes = Undefined THEN notFoundHandler ELSE honoRes
            /\ honoPc' = "return"
            /\ UNCHANGED <<ran, suspended, index>>
       ELSE LET i == matched[index] IN
            /\ ran' = Append(ran, i)
            /\ CASE app[i].does = "next" ->
                       /\ suspended' = Append(suspended, i)
                       /\ index' = index + 1
                       /\ UNCHANGED <<honoRes, honoPc>>
                 [] app[i].does = "respond" ->
                       /\ honoRes' = ResponseOf(i)
                       /\ honoPc' = "return"
                       /\ UNCHANGED <<suspended, index>>
                 [] app[i].does = "throw" ->
                       /\ honoRes' = errorHandler
                       /\ honoPc' = "return"
                       /\ UNCHANGED <<suspended, index>>
    /\ UNCHANGED <<app, honoReq, matched, rest, urls, logger>>

\* next() returns to the middleware that awaits it, which returns in turn;
\* when none is left app.fetch returns c.res
nextReturns ==
    /\ honoPc = "return"
    /\ IF suspended = <<>>
       THEN /\ honoPc' = "done"
            /\ UNCHANGED suspended
       ELSE /\ suspended' = SubSeq(suspended, 1, Len(suspended) - 1)
            /\ UNCHANGED honoPc
    /\ UNCHANGED <<app, honoReq, matched, index, ran, honoRes, rest, urls, logger>>

NextHono ==
    \/ \E path \in RequestPaths : app_fetch(path)
    \/ dispatch
    \/ nextReturns

SpecHono == InitHono /\ [][NextHono]_vars

\* ---------------------------------------------------------------- AxiomLogger
\* the flushAfterLogs option of the logger (100 when it is not given)
FlushAfterLogs == 2

\* the fields of the logger, the timers, the storage and the pending work
Logger ==
    [state |-> state, logs |-> logs, flushTimeout |-> flushTimeout,
     flushPromise |-> flushPromise, cfTrace |-> cfTrace, storage |-> storage,
     timers |-> timers, handles |-> handles, flushes |-> flushes,
     microtasks |-> microtasks, gets |-> gets, ingested |-> ingested,
     logged |-> logged, manual |-> manual, caller |-> caller]

Becomes(L) ==
    /\ state' = L.state
    /\ logs' = L.logs
    /\ flushTimeout' = L.flushTimeout
    /\ flushPromise' = L.flushPromise
    /\ cfTrace' = L.cfTrace
    /\ storage' = L.storage
    /\ timers' = L.timers
    /\ handles' = L.handles
    /\ flushes' = L.flushes
    /\ microtasks' = L.microtasks
    /\ gets' = L.gets
    /\ ingested' = L.ingested
    /\ logged' = L.logged
    /\ manual' = L.manual
    /\ caller' = L.caller

\* a call of flush that went past the test of line 355: where it stands, the
\* locals logsCount, logsBody and logs of its doFlush, the value its storage
\* read yields, the status Axiom answered, whether its doFlush promise has
\* resolved, the continuations that await that promise, and whether the
\* application awaits the call
NewFlush(origin) ==
    [origin |-> origin, pc |-> "awaitPrev", logsCount |-> 0, logsBody |-> <<>>,
     batch |-> <<>>, existing |-> Undefined, status |-> "", settled |-> FALSE,
     waiters |-> <<>>, awaited |-> FALSE]

\* existing ?? []
OrEmpty(v) == IF v = Undefined THEN <<>> ELSE v.a

\* storage.put('__AXIOM_LOGS__', list)
Put(list) == Arr(list)

\* array.splice(0, n): what is left of the array
splice(list, n) == SubSeq(list, n + 1, Len(list))

\* await p: the continuation k is ready at once when p is null or a promise
\* that has resolved, and waits for p otherwise
Await(L, p, k) ==
    IF p = 0 \/ L.flushes[p].settled
    THEN [L EXCEPT !.microtasks = Append(@, k)]
    ELSE [L EXCEPT !.flushes[p].waiters = Append(@, k)]

\* the doFlush promise of flush call f resolves, and its locals are gone
Settle(L, f) ==
    [L EXCEPT !.flushes[f] = [NewFlush(@.origin) EXCEPT !.settled = TRUE, !.pc = "settled",
                                                       !.awaited = L.flushes[f].awaited],
              !.microtasks = @ \o L.flushes[f].waiters]

\* scheduleFlush(timeout, reset)
scheduleFlush(L, reset) ==
    IF L.state THEN L
    ELSE LET L1 == IF reset /\ L.flushTimeout # 0
                   THEN [L EXCEPT !.timers = @ \ {L.flushTimeout}, !.flushTimeout = 0]
                   ELSE L
         IN  IF L1.flushTimeout = 0 /\ L1.flushPromise = 0
             THEN [L1 EXCEPT !.handles = @ + 1,
                             !.timers = @ \cup {L1.handles + 1},
                             !.flushTimeout = L1.handles + 1]
             ELSE L1

\* flush({ skipIfInProgress }) from its call to its first await (line 443), or
\* to its return at line 355.  origin tells who called: the application, the
\* timer callback (whose doFlush awaits the call and then clears flushTimeout)
\* or _log at the threshold.
flush(L, skipIfInProgress, origin) ==
    IF skipIfInProgress /\ L.flushPromise # 0
    THEN IF origin = "timer"
         THEN [L EXCEPT !.microtasks = Append(@, <<0, "timerEnd">>)]
         ELSE L
    ELSE Await([L EXCEPT !.flushes = Append(@, NewFlush(origin))],
               L.flushPromise, <<Len(L.flushes) + 1, "doFlush">>)

\* _log(message, level, data), from line 297 on
log(L) ==
    LET e == L.logged + 1
        L0 == [L EXCEPT !.logged = e]
    IN  IF L0.state
        THEN [L0 EXCEPT !.gets = Append(@, [entry |-> e, existing |-> L0.storage])]
        ELSE LET L1 == [L0 EXCEPT !.logs = Append(@, e)]
             IN  IF Len(L1.logs) >= FlushAfterLogs
                 THEN flush(IF L1.flushTimeout # 0 THEN scheduleFlush(L1, TRUE) ELSE L1,
                            TRUE, "threshold")
                 ELSE scheduleFlush(L1, FALSE)

\* await this.addCFTraceTags() in doFlush of call f: with the trace at hand
\* the function ends without waiting, otherwise it waits for getCFTrace
addCFTraceTags(L, f) ==
    IF L.cfTrace
    THEN [L EXCEPT !.flushes[f].pc = "tags", !.microtasks = Append(@, <<f, "tagsDone">>)]
    ELSE [L EXCEPT !.flushes[f].pc = "trace"]

\* lines 445-446: this.flushPromise = doFlush(), where doFlush runs to its
\* first await or to its return at line 362, and await this.flushPromise
doFlush(L, f) ==
    LET started ==
            IF L.state
            THEN [L EXCEPT !.flushes[f].pc = "get", !.flushes[f].existing = L.storage]
            ELSE IF L.logs = <<>>
            THEN Settle(L, f)
            ELSE addCFTraceTags(L, f)
        assigned == [started EXCEPT !.flushPromise = f]
    IN  Await(assigned, f, <<f, "end">>)

\* doFlush of call f from line 365 to the call of fetch
tagsDone(L, f) ==
    LET local == IF L.state THEN L.flushes[f].batch ELSE L.logs
    IN  [L EXCEPT !.flushes[f].logsCount = Len(local),
                  !.flushes[f].logsBody = local,
                  !.flushes[f].pc = "fetch"]

\* the continuation of the application, which stands for no flush call
App == <<0, "app">>

\* line 447 and the return of flush; whoever awaits the call goes on after
\* it: the doFlush of a timer, or the application
end(L, f) ==
    LET L1 == [L EXCEPT !.flushPromise = 0, !.flushes[f].pc = "returned",
                        !.flushes[f].awaited = FALSE]
    IN  IF L.flushes[f].origin = "timer"
        THEN [L1 EXCEPT !.microtasks = Append(@, <<f, "timerEnd">>)]
        ELSE IF L.flushes[f].awaited
        THEN [L1 EXCEPT !.microtasks = Append(@, App)]
        ELSE L1

\* line 347, in the doFlush of the timer callback
timerEnd(L) == [L EXCEPT !.flushTimeout = 0]

InitLogger ==
    /\ RestUnused
    /\ UrlUnused
    /\ HonoUnused
    /\ state \in BOOLEAN
    /\ cfTrace \in BOOLEAN
    /\ logs = <<>>
    /\ flushTimeout = 0
    /\ flushPromise = 0
    /\ storage = Undefined
    /\ timers = {}
    /\ handles = 0
    /\ flushes = <<>>
    /\ microtasks = <<>>
    /\ gets = <<>>
    /\ ingested = <<>>
    /\ logged = 0
    /\ manual = 0
    /\ caller = FALSE

LoggerFrame == UNCHANGED <<rest, urls, hono>>

\* between tasks: no code runs and no continuation is ready
Idle == ~caller /\ microtasks = <<>>

\* an event is delivered to the application, whose code starts to run
AppStarts ==
    /\ Idle
    /\ Becomes([Logger EXCEPT !.caller = TRUE])
    /\ LoggerFrame

\* the application logs an entry
Log ==
    /\ caller
    /\ logged < MaxLogs
    /\ Becomes(log(Logger))
    /\ LoggerFrame

\* the application calls flush() or flush({ skipIfInProgress: true }) and
\* goes on
Flush(skipIfInProgress) ==
    /\ caller
    /\ manual < MaxManual
    /\ Becomes(flush([Logger EXCEPT !.manual = @ + 1], skipIfInProgress, "manual"))
    /\ LoggerFrame

\* the application awaits flush() or flush({ skipIfInProgress: true })
AwaitFlush(skipIfInProgress) ==
    /\ caller
    /\ manual < MaxManual
    /\ LET L == flush([Logger EXCEPT !.manual = @ + 1, !.caller = FALSE],
                      skipIfInProgress, "manual")
       IN  Becomes(IF Len(L.flushes) = Len(flushes)
                   THEN [L EXCEPT !.microtasks = Append(@, App)]
                   ELSE [L EXCEPT !.flushes[Len(L.flushes)].awaited = TRUE])
    /\ LoggerFrame

\* the code of the application stops: it returns or awaits something that
\* has not settled (ready FALSE), or it awaits what has settled already and
\* its continuation is ready
AppStops(ready) ==
    /\ caller
    /\ Becomes(IF ready
               THEN [Logger EXCEPT !.caller = FALSE, !.microtasks = Append(@, App)]
               ELSE [Logger EXCEPT !.caller = FALSE])
    /\ LoggerFrame

\* the continuation at the head of the microtask queue runs
RunMicrotask ==
    /\ ~caller
    /\ microtasks # <<>>
    /\ LET k == Head(microtasks)
           f == k[1]
           L == [Logger EXCEPT !.microtasks = Tail(@)]
       IN  Becomes(CASE k[2] = "doFlush" -> doFlush(L, f)
                     [] k[2] = "tagsDone" -> tagsDone(L, f)
                     [] k[2] = "end" -> end(L, f)
                     [] k[2] = "timerEnd" -> timerEnd(L)
                     [] k[2] = "app" -> [L EXCEPT !.caller = TRUE])
    /\ LoggerFrame

\* a timer fires: the callback of lines 344-350 runs to its await
TimerFires(h) ==
    /\ Idle
    /\ h \in timers
    /\ Becomes(flush([Logger EXCEPT !.timers = @ \ {h}], TRUE, "timer"))
    /\ LoggerFrame

\* the storage read of a _log call resolves: the callback of lines 307-314
LogGetSettles ==
    /\ Idle
    /\ gets # <<>>
    /\ LET g == Head(gets)
       IN  Becomes([Logger EXCEPT !.gets = Tail(@),
                                  !.storage = Put(Append(OrEmpty(g.existing), g.entry))])
    /\ LoggerFrame

\* the storage read of line 360 resolves for flush call f
FlushGetSettles(f) ==
    /\ Idle
    /\ f \in DOMAIN flushes
    /\ flushes[f].pc = "get"
    /\ LET batch == OrEmpty(flushes[f].existing)
           L == [Logger EXCEPT !.flushes[f].batch = batch]
       IN  Becomes(IF batch = <<>> THEN Settle(L, f) ELSE addCFTraceTags(L, f))
    /\ LoggerFrame

\* getCFTrace settles for flush call f: with a trace, or with an error that
\* addCFTraceTags logs with this.error
TraceSettles(f, found) ==
    /\ Idle
    /\ f \in DOMAIN flushes
    /\ flushes[f].pc = "trace"
    /\ found \/ logged < MaxLogs
    /\ LET L == [Logger EXCEPT !.flushes[f].pc = "tags"]
           L1 == IF found THEN [L EXCEPT !.cfTrace = TRUE] ELSE log(L)
       IN  Becomes([L1 EXCEPT !.microtasks = Append(@, <<f, "tagsDone">>)])
    /\ LoggerFrame

\* the ingest request of flush call f settles: Axiom answers ok, answers 400
\* or another status that is not ok, or fetch throws (timeout, network)
IngestSettles(f, outcome) ==
    /\ Idle
    /\ f \in DOMAIN flushes
    /\ flushes[f].pc = "fetch"
    /\ Becomes(CASE outcome = "ok" ->
                      [Logger EXCEPT !.ingested = Append(@, flushes[f].logsBody),
                                     !.flushes[f].status = "ok",
                                     !.flushes[f].pc = "text"]
                 [] outcome \in {"400", "500"} ->
                      [Logger EXCEPT !.flushes[f].status = outcome,
                                     !.flushes[f].pc = "text"]
                 [] outcome = "throw" ->
                      Settle([Logger EXCEPT !.flushes[f].status = "throw"], f))
    /\ LoggerFrame

\* res.text() resolves for flush call f: lines 389-411 after an ok status,
\* lines 413-432 otherwise
TextSettles(f) ==
    /\ Idle
    /\ f \in DOMAIN flushes
    /\ flushes[f].pc = "text"
    /\ Becomes(IF flushes[f].status = "ok"
               THEN IF state
                    THEN [Logger EXCEPT !.flushes[f].pc = "get2",
                                        !.flushes[f].existing = storage]
                    ELSE Settle([Logger EXCEPT !.logs = splice(@, flushes[f].logsCount)], f)
               ELSE IF state /\ flushes[f].status = "400"
                    THEN Settle([Logger EXCEPT !.storage = Undefined], f)
                    ELSE Settle(Logger, f))
    /\ LoggerFrame

\* the storage read of line 402 resolves for flush call f
RemoveSettles(f) ==
    /\ Idle
    /\ f \in DOMAIN flushes
    /\ flushes[f].pc = "get2"
    /\ LET left == splice(OrEmpty(flushes[f].existing), flushes[f].logsCount)
       IN  Becomes(Settle([Logger EXCEPT
                             !.storage = IF Len(left) > 0 THEN Put(left) ELSE Undefined], f))
    /\ LoggerFrame

\* the flush calls there can be
FlushCalls == 1..(2 * MaxLogs + MaxManual)

NextLogger ==
    \/ AppStarts
    \/ Log
    \/ \E skipIfInProgress \in BOOLEAN : Flush(skipIfInProgress)
    \/ \E skipIfInProgress \in BOOLEAN : AwaitFlush(skipIfInProgress)
    \/ \E ready \in BOOLEAN : AppStops(ready)
    \/ RunMicrotask
    \/ \E h \in 1..MaxLogs : TimerFires(h)
    \/ LogGetSettles
    \/ \E f \in FlushCalls :
          \/ FlushGetSettles(f)
          \/ \E found \in BOOLEAN : TraceSettles(f, found)
          \/ \E outcome \in {"ok", "400", "500", "throw"} : IngestSettles(f, outcome)
          \/ TextSettles(f)
          \/ RemoveSettles(f)

SpecLogger == InitLogger /\ [][NextLogger]_vars

\* in-memory mode with every ingest request answered ok and every trace found
InitLoggerOk ==
    /\ InitLogger
    /\ state = FALSE

NextLoggerOk ==
    \/ AppStarts
    \/ Log
    \/ \E skipIfInProgress \in BOOLEAN : Flush(skipIfInProgress)
    \/ \E skipIfInProgress \in BOOLEAN : AwaitFlush(skipIfInProgress)
    \/ \E ready \in BOOLEAN : AppStops(ready)
    \/ RunMicrotask
    \/ \E h \in 1..MaxLogs : TimerFires(h)
    \/ \E f \in FlushCalls :
          \/ TraceSettles(f, TRUE)
          \/ IngestSettles(f, "ok")
          \/ TextSettles(f)

SpecLoggerOk == InitLoggerOk /\ [][NextLoggerOk]_vars

\* ------------------------------------- useSentry and useAxiomLogger
\* One request through the chain useSentry, useAxiomLogger, handler.  A
\* promise is a record of its kind, its status and, for a promise that waits
\* for others, the promises it was given when it was made; its number is its
\* place in promises.

skipTxStatuses == {401, 403, 404}

NewPromise(kind, status, inputs) ==
    [kind |-> kind, status |-> status, inputs |-> inputs]

Settled(p) == promises[p].status # "pending"

\* Promise.allSettled(array) is settled once the promises that were in the
\* array when it was called are
allSettled(array) == {array[i] : i \in DOMAIN array}

AllSettled(inputs) == \A q \in inputs : Settled(q)

PromisesOf(kind) == {p \in DOMAIN promises : promises[p].kind = kind}

Environments == {"production", "VITEST"}

\* what a handler answers, and what it throws
HandlerStatuses == {200, 401, 403, 404, 500}

HandlerErrors ==
    Normal({[type |-> "HTTPException", status |-> s, message |-> "message"] :
                s \in {400, 401, 403, 404, 500}}
           \cup {[type |-> "Error", status |-> 0, message |-> "message"]})

\* c.error instanceof HTTPException
instanceofHTTPException(e) == e # Undefined /\ e.type = "HTTPException"

InitMiddleware ==
    /\ AccessUnused
    /\ ToolsUnused
    /\ AuthUnused
    /\ UrlUnused
    /\ HonoUnused
    /\ LoggerUnused
    /\ ENVIRONMENT \in Environments
    /\ reqPc = "useSentry"
    /\ tx = "none"
    /\ hasLogger = FALSE
    /\ txWaitUntil = <<>>
    /\ promises = <<>>
    /\ c_res = 0
    /\ c_error = Undefined
    /\ waitUntil = {}
    /\ requestLog = FALSE
    /\ flushPc = "none"
    /\ alive = TRUE

MiddlewareFrame == UNCHANGED <<access, locking, authentication, urls, hono, logger>>

\* useSentry up to its call of next()
useSentry ==
    /\ alive
    /\ reqPc = "useSentry"
    /\ tx' = IF ENVIRONMENT = "production" THEN "started" ELSE "none"
    /\ txWaitUntil' = <<>>
    /\ reqPc' = "useAxiomLogger"
    /\ UNCHANGED <<ENVIRONMENT, hasLogger, promises, c_res, c_error, waitUntil,
                   requestLog, flushPc, alive>>
    /\ MiddlewareFrame

\* useAxiomLogger up to its call of next()
useAxiomLogger ==
    /\ alive
    /\ reqPc = "useAxiomLogger"
    /\ hasLogger' = (ENVIRONMENT = "production")
    /\ reqPc' = "handler"
    /\ UNCHANGED <<ENVIRONMENT, tx, txWaitUntil, promises, c_res, c_error,
                   waitUntil, requestLog, flushPc, alive>>
    /\ MiddlewareFrame

\* the handler starts a task in the background: c.var.txWaitUntil.push(task())
handlerPushes ==
    /\ alive
    /\ reqPc = "handler"
    /\ Cardinality(PromisesOf("background")) < MaxBackground
    /\ promises' = Append(promises, NewPromise("background", "pending", {}))
    /\ txWaitUntil' = Append(txWaitUntil, Len(promises) + 1)
    /\ UNCHANGED <<ENVIRONMENT, reqPc, tx, hasLogger, c_res, c_error, waitUntil,
                   requestLog, flushPc, alive>>
    /\ MiddlewareFrame

\* the handler (or the notFound hook) returns a response
handlerReturns(status) ==
    /\ alive
    /\ reqPc = "handler"
    /\ c_res' = status
    /\ reqPc' = "useAxiomLogger_after"
    /\ UNCHANGED <<ENVIRONMENT, tx, hasLogger, txWaitUntil, promises, c_error,
                   waitUntil, requestLog, flushPc, alive>>
    /\ MiddlewareFrame

\* the handler throws: Hono sets c.error and answers with the onError hook,
\* and next() of the middleware resolves
handlerThrows(err) ==
    /\ alive
    /\ reqPc = "handler"
    /\ c_error' = err
    /\ c_res' = useOnError(err).status
    /\ reqPc' = "useAxiomLogger_after"
    /\ UNCHANGED <<ENVIRONMENT, tx, hasLogger, txWaitUntil, promises, waitUntil,
                   requestLog, flushPc, alive>>
    /\ MiddlewareFrame

\* a task of the handler ends
taskSettles(p, status) ==
    /\ alive
    /\ p \in PromisesOf("background")
    /\ ~Settled(p)
    /\ promises' = [promises EXCEPT ![p].status = status]
    /\ UNCHANGED <<ENVIRONMENT, reqPc, tx, hasLogger, txWaitUntil, c_res, c_error,
                   waitUntil, requestLog, flushPc, alive>>
    /\ MiddlewareFrame

\* useAxiomLogger after next(), with the logger flushed at once
useAxiomLogger_after_FlushNow ==
    /\ alive
    /\ reqPc = "useAxiomLogger_after"
    /\ reqPc' = "useSentry_after"
    /\ IF hasLogger
       THEN LET logRequest == Len(promises) + 1
                existingWaitUntil == Append(txWaitUntil, logRequest)
                waitAndFlush == logRequest + 1
            IN /\ requestLog' = TRUE
               /\ flushPc' = "called"
               /\ promises' =
                      promises \o
                      << NewPromise("logRequest", "fulfilled", {}),
                         NewPromise("waitAndFlush", "pending", {}) >>
               /\ txWaitUntil' = Append(existingWaitUntil, waitAndFlush)
       ELSE UNCHANGED <<requestLog, promises, txWaitUntil, flushPc>>
    /\ UNCHANGED <<ENVIRONMENT, tx, hasLogger, c_res, c_error, waitUntil, alive>>
    /\ MiddlewareFrame

\* useAxiomLogger after next(): logRequest() runs logger.info before it
\* returns its promise, waitAndFlush() runs up to its first await
useAxiomLogger_after ==
    /\ alive
    /\ reqPc = "useAxiomLogger_after"
    /\ reqPc' = "useSentry_after"
    /\ IF hasLogger
       THEN LET logRequest == Len(promises) + 1
                existingWaitUntil == Append(txWaitUntil, logRequest)
                waitUntilDone == allSettled(existingWaitUntil)
                waitAndFlush == logRequest + 1
            IN /\ requestLog' = TRUE
               /\ promises' =
                      promises \o
                      << NewPromise("logRequest", "fulfilled", {}),
                         NewPromise("waitAndFlush", "pending", waitUntilDone) >>
               /\ txWaitUntil' = Append(existingWaitUntil, waitAndFlush)
       ELSE UNCHANGED <<requestLog, promises, txWaitUntil>>
    /\ UNCHANGED <<ENVIRONMENT, tx, hasLogger, c_res, c_error, waitUntil, flushPc,
                   alive>>
    /\ MiddlewareFrame

\* waitAndFlush past `await waitUntilDone`: it calls logger.flush()
waitAndFlushResumes(p) ==
    /\ alive
    /\ p \in PromisesOf("waitAndFlush")
    /\ ~Settled(p)
    /\ flushPc = "none"
    /\ AllSettled(promises[p].inputs)
    /\ flushPc' = "called"
    /\ UNCHANGED <<ENVIRONMENT, reqPc, tx, hasLogger, txWaitUntil, promises, c_res,
                   c_error, waitUntil, requestLog, alive>>
    /\ MiddlewareFrame

\* logger.flush() settles, and with it waitAndFlush
flushSettles(p, status) ==
    /\ alive
    /\ p \in PromisesOf("waitAndFlush")
    /\ ~Settled(p)
    /\ flushPc = "called"
    /\ flushPc' = "done"
    /\ promises' = [promises EXCEPT ![p].status = status]
    /\ UNCHANGED <<ENVIRONMENT, reqPc, tx, hasLogger, txWaitUntil, c_res, c_error,
                   waitUntil, requestLog, alive>>
    /\ MiddlewareFrame

\* useSentry after next(), looking at c.error only
useSentry_after_ErrorOnly ==
    /\ alive
    /\ reqPc = "useSentry_after"
    /\ reqPc' = "done"
    /\ LET recordTx == ~(instanceofHTTPException(c_error)
                          /\ c_error.status \in skipTxStatuses)
           inputs == allSettled(txWaitUntil)
       IN /\ promises' =
                 Append(promises,
                        IF recordTx
                        THEN NewPromise("waitAndCommitTX", "pending", inputs)
                        ELSE NewPromise("allSettled", "pending", inputs))
          /\ waitUntil' = waitUntil \cup {Len(promises) + 1}
    /\ UNCHANGED <<ENVIRONMENT, tx, hasLogger, txWaitUntil, c_res, c_error,
                   requestLog, flushPc, alive>>
    /\ MiddlewareFrame

\* useSentry after next(): waitAndCommitTX() runs up to its await
useSentry_after ==
    /\ alive
    /\ reqPc = "useSentry_after"
    /\ reqPc' = "done"
    /\ LET recordTx == /\ ~(instanceofHTTPException(c_error)
                             /\ c_error.status \in skipTxStatuses)
                       /\ c_res \notin skipTxStatuses
           inputs == allSettled(txWaitUntil)
       IN /\ promises' =
                 Append(promises,
                        IF recordTx
                        THEN NewPromise("waitAndCommitTX", "pending", inputs)
                        ELSE NewPromise("allSettled", "pending", inputs))
          /\ waitUntil' = waitUntil \cup {Len(promises) + 1}
    /\ UNCHANGED <<ENVIRONMENT, tx, hasLogger, txWaitUntil, c_res, c_error,
                   requestLog, flushPc, alive>>
    /\ MiddlewareFrame

\* waitAndCommitTX past its await: c.get('tx')?.finish()
waitAndCommitTXResumes(p) ==
    /\ alive
    /\ p \in PromisesOf("waitAndCommitTX")
    /\ ~Settled(p)
    /\ AllSettled(promises[p].inputs)
    /\ tx' = IF tx = "started" THEN "finished" ELSE tx
    /\ promises' = [promises EXCEPT ![p].status = "fulfilled"]
    /\ UNCHANGED <<ENVIRONMENT, reqPc, hasLogger, txWaitUntil, c_res, c_error,
                   waitUntil, requestLog, flushPc, alive>>
    /\ MiddlewareFrame

\* the Promise.allSettled(...) of line 57 settles
allSettledSettles(p) ==
    /\ alive
    /\ p \in PromisesOf("allSettled")
    /\ ~Settled(p)
    /\ AllSettled(promises[p].inputs)
    /\ promises' = [promises EXCEPT ![p].status = "fulfilled"]
    /\ UNCHANGED <<ENVIRONMENT, reqPc, tx, hasLogger, txWaitUntil, c_res, c_error,
                   waitUntil, requestLog, flushPc, alive>>
    /\ MiddlewareFrame

\* the runtime ends the invocation: the response is returned and every promise
\* given to waitUntil is settled
invocationEnds ==
    /\ alive
    /\ reqPc = "done"
    /\ AllSettled(waitUntil)
    /\ alive' = FALSE
    /\ UNCHANGED <<ENVIRONMENT, reqPc, tx, hasLogger, txWaitUntil, promises, c_res,
                   c_error, waitUntil, requestLog, flushPc>>
    /\ MiddlewareFrame

MaxPromises == MaxBackground + 3

NextMiddleware ==
    \/ useSentry
    \/ useAxiomLogger
    \/ handlerPushes
    \/ \E status \in HandlerStatuses : handlerReturns(status)
    \/ \E err \in HandlerErrors : handlerThrows(err)
    \/ useAxiomLogger_after
    \/ useSentry_after
    \/ invocationEnds
    \/ \E p \in 1..MaxPromises :
          \/ \E status \in {"fulfilled", "rejected"} : taskSettles(p, status)
          \/ waitAndFlushResumes(p)
          \/ \E status \in {"fulfilled", "rejected"} : flushSettles(p, status)
          \/ waitAndCommitTXResumes(p)
          \/ allSettledSettles(p)

SpecMiddleware == InitMiddleware /\ [][NextMiddleware]_vars

\* ------------------------------------------------------------- properties
\* the handler of the request has run and the request is answered
Answered == pc = "done"

\* verification failed: hasValidJWT was false or validateAccessJWT threw
Failed == Answered /\ ~result.ok

\* validateAccessJWT returned and the middleware called next()
Accepted == result.ok

\* the number of '.' in a string
Dots(s) == Cardinality({i \in 1..Len(s) : s[i].kind = "dot"})

\* the text before the first '.'
RECURSIVE FirstSegment(_)
FirstSegment(s) ==
    IF s = <<>> \/ Head(s).kind = "dot" THEN <<>>
    ELSE <<Head(s)>> \o FirstSegment(Tail(s))

\* the header segment is no base64url, no JSON, or violates the Header schema
HeaderSegmentFails(s) ==
    LET seg == FirstSegment(s) IN
    \/ Len(seg) # 1
    \/ seg[1].data.t # "json"
    \/ ~AccessHeader(seg[1].data.v)

\* the request is one that must be refused before the network is touched
RefusedEarly ==
    \/ header = Null
    \/ /\ header.ty = "str"
       /\ \/ Dots(header.s) # 2
          \/ HeaderSegmentFails(header.s)

\* C1: a request whose Cf-Access-Jwt-Assertion header is missing, has not
\* exactly three dot-separated segments, or whose header segment fails
\* decoding or the Header schema, is refused, and fetch is never called for it.
C1_NoFetchOnMalformed ==
    (pc \notin {"idle", "start"} /\ RefusedEarly)
        => (Failed /\ fetchCalls = <<>> /\ nextCalls = 0)

\* a token of three segments whose header names an algorithm other than RS256
\* has been refused
C1_Witness ==
    /\ Failed
    /\ header.ty = "str"
    /\ Dots(header.s) = 2
    /\ accessJWTRegex(header.s)
    /\ FirstSegment(header.s)[1].data.t = "json"
    /\ FirstSegment(header.s)[1].data.v.ty = "obj"
    /\ Get(FirstSegment(header.s)[1].data.v.o, "alg") = Str("none")

Unauthorized401 ==
    Normal([status |-> 401,
            body |-> [success |-> FALSE, error |-> [message |-> "unauthorized"]]])

\* C2: every failed verification is answered by the same response, a 401 with
\* the message 'unauthorized', whatever check failed; the reason reaches only
\* the logger and Sentry; next() is not called.
C2_UniformUnauthorized ==
    Failed =>
        /\ response = Unauthorized401
        /\ nextCalls = 0
        /\ (result # Pending /\ cvar.logger # Undefined)
               => warned = << <<"validateAccessJWT failed ", result.err>> >>
        /\ (result # Pending /\ cvar.sentry # Undefined)
               => captured = <<result.err>>

\* a token was refused for its signature, after every other check had passed
C2_Witness ==
    /\ Failed
    /\ result.err = "Could not verify JWT."
    /\ response = Unauthorized401
    /\ warned # <<>>

\* the reason verification failed with, "" when it did not fail
Reason == IF result.ok THEN "" ELSE result.err

\* the k-th dot-separated piece of a string of at least k pieces
RECURSIVE Segment(_, _)
Segment(s, k) ==
    IF k = 1 THEN FirstSegment(s)
    ELSE IF Head(s).kind = "dot" THEN Segment(Tail(s), k - 1)
    ELSE Segment(Tail(s), k)

\* the request carries three segments and its header passed the schema
HeaderPassed == pc \notin {"idle", "start"} /\ header.ty = "str" /\ ~RefusedEarly
                    /\ accessJWTRegex(header.s)

\* what the token says, read off the request
TokenKid == FirstSegment(header.s)[1].data.v.o.kid.s
TokenPayloadData == Segment(header.s, 2)[1].data
TokenSignatureData == Segment(header.s, 3)[1].data
TokenSigned == asciiToUint8Array(Segment(header.s, 1) \o <<Dot>> \o Segment(header.s, 2))

\* the payload segment decodes to JSON that is a user or a service payload
PayloadParses ==
    /\ TokenPayloadData.t = "json"
    /\ UserAccessPayload(TokenPayloadData.v) \/ ServiceAuthAccessPayload(TokenPayloadData.v)

TokenClaims == TokenPayloadData.v.o
IsUser == "identity_nonce" \in DOMAIN TokenClaims

\* the four claim checks, stated on the token, the configuration and the clock
IssuerHolds == TokenClaims.iss.s = accessTeamDomain
AudienceHolds ==
    IF IsUser THEN Str(accessAud) \in {TokenClaims.aud.a[i] : i \in DOMAIN TokenClaims.aud.a}
    ELSE TokenClaims.aud = Str(accessAud)
NowMs == unroundedSecondsSinceEpoch.n
FloorNow == NowMs - (NowMs % Milli)
CeilNow == NowMs + ((Milli - (NowMs % Milli)) % Milli)
ExpiryHolds == FloorNow < TokenClaims.exp.n
NotBeforeHolds == IsUser => CeilNow >= TokenClaims.nbf.n

\* the clock has been read: importKey resolved and the claim stage has run
ClockRead == HeaderPassed /\ unroundedSecondsSinceEpoch # Undefined

\* the token fails payload decoding or one of the four claim checks
TokenFailsClaims ==
    /\ ClockRead
    /\ \/ ~PayloadParses
       \/ ~IssuerHolds
       \/ ~AudienceHolds
       \/ ~ExpiryHolds
       \/ ~NotBeforeHolds

BodyRead == certsResponse # Undefined /\ pc # "json"

\* the response is no 2xx response or its body is no KeySet
UnusableResponse ==
    \/ certsResponse.status \notin 200..299
    \/ certsResponse.body.t # "json"
    \/ ~AccessCertsResponse(certsResponse.body.v)

\* C4: a certs response with a non-2xx status or a body that violates the
\* KeySet schema makes verification fail and is never used to accept a token.
C4_Original ==
    (BodyRead /\ UnusableResponse) => (~Accepted /\ (Answered => Failed))

\* C5: when the middleware accepts, the validated payload is available to the
\* downstream handlers, which read the context of the request.
C5_Original ==
    pc = "next" =>
        /\ result = Ok([jwt |-> header.s, payload |-> AccessPayload(TokenPayloadData.v).val])
        /\ \E k \in DOMAIN cvar : cvar[k] \in {Obj(result.val.payload), Obj(result.val)}

\* the kids of the keys of the response
ResponseKids ==
    {certsResponse.body.v.o.keys.a[i].o.kid.s :
        i \in DOMAIN certsResponse.body.v.o.keys.a}

\* C6: when no key of the fetched KeySet has the kid of the header,
\* verification fails with 'Could not find matching signing key.', importKey
\* and verify are never called, and the certs endpoint is fetched once only.
C6_NoMatchingKey ==
    (BodyRead /\ ~UnusableResponse /\ TokenKid \notin ResponseKids) =>
        /\ Failed
        /\ Reason = "Could not find matching signing key."
        /\ importKeyCalls = 0
        /\ verifyCalls = 0
        /\ Len(fetchCalls) = 1

\* a token was refused for a kid that a non-empty KeySet does not hold
C6_Witness ==
    /\ BodyRead
    /\ ~UnusableResponse
    /\ TokenKid \notin ResponseKids
    /\ Reason = "Could not find matching signing key."
    /\ fetchCalls = <<URLtoString(certsURL)>>

\* the reason of the first claim check the token violates, in the order
\* issuer, audience, expiry, not-before
FirstViolation ==
    IF ~IssuerHolds THEN "JWT issuer is incorrect."
    ELSE IF ~AudienceHolds THEN "JWT audience is incorrect."
    ELSE IF ~ExpiryHolds THEN "JWT has expired."
    ELSE IF ~NotBeforeHolds THEN "JWT is not yet valid."
    ELSE ""

ClaimReasons ==
    Normal({"JWT issuer is incorrect.", "JWT audience is incorrect.",
            "JWT has expired.", "JWT is not yet valid."})

\* C7: the claim checks run in the order issuer, audience, expiry, not-before,
\* and the reported reason is that of the first check the payload violates.
C7_FirstViolationReported ==
    (ClockRead /\ PayloadParses) =>
        /\ FirstViolation # "" => (Failed /\ Reason = FirstViolation)
        /\ FirstViolation = "" => Reason \notin ClaimReasons

\* a token with a wrong issuer, a wrong audience and a past expiry was refused
\* for its issuer
C7_Witness ==
    /\ ClockRead
    /\ PayloadParses
    /\ ~IssuerHolds
    /\ ~AudienceHolds
    /\ ~ExpiryHolds
    /\ Reason = "JWT issuer is incorrect."

\* C8: an otherwise valid token is refused as expired exactly when the floor
\* of the clock in seconds is at or past exp.
C8_ExpiryBoundary ==
    (ClockRead /\ PayloadParses /\ IssuerHolds /\ AudienceHolds) =>
        /\ (Reason = "JWT has expired.") <=> (FloorNow >= TokenClaims.exp.n)
        /\ (FloorNow >= TokenClaims.exp.n) => Failed

\* a token was refused as expired at the second its exp names
C8_Witness ==
    /\ ClockRead
    /\ PayloadParses
    /\ IssuerHolds
    /\ AudienceHolds
    /\ NowMs = TokenClaims.exp.n
    /\ Reason = "JWT has expired."

\* the signature of the token is one by the imported key over the token
SignatureHolds ==
    /\ TokenSignatureData.t = "bytes"
    /\ TokenSignatureData.sig = Sign(key.n, TokenSigned)

\* C9: the not-before check runs for user payloads only, and refuses exactly
\* when the ceiling of the clock in seconds is before nbf; a service-auth
\* token is never refused for nbf and is accepted whenever its other claims
\* and its signature hold.
C9_NotBefore ==
    (ClockRead /\ PayloadParses /\ IssuerHolds /\ AudienceHolds /\ ExpiryHolds) =>
        IF IsUser
        THEN /\ (Reason = "JWT is not yet valid.") <=> (CeilNow < TokenClaims.nbf.n)
             /\ (CeilNow < TokenClaims.nbf.n) => Failed
        ELSE /\ Reason # "JWT is not yet valid."
             /\ (SignatureHolds /\ pc # "verify") => Accepted

\* a service-auth token that carries no nbf was accepted
C9_Witness ==
    /\ ClockRead
    /\ PayloadParses
    /\ ~IsUser
    /\ "nbf" \notin DOMAIN TokenClaims
    /\ Accepted
    /\ nextCalls = 1

\* C10: the audience check passes for a user payload exactly when the
\* configured audience is an element of aud, for a service-auth payload
\* exactly when aud equals it; otherwise verification fails with
\* 'JWT audience is incorrect.'.
C10_Audience ==
    (ClockRead /\ PayloadParses /\ IssuerHolds) =>
        /\ (Reason = "JWT audience is incorrect.") <=> ~AudienceHolds
        /\ ~AudienceHolds => Failed

\* a user token that names the configured audience second in aud was accepted
C10_Witness ==
    /\ ClockRead
    /\ PayloadParses
    /\ IsUser
    /\ Len(TokenClaims.aud.a) = 2
    /\ TokenClaims.aud.a[1] # Str(accessAud)
    /\ TokenClaims.aud.a[2] = Str(accessAud)
    /\ Accepted

\* the payload segment decodes to a JSON object that names an issuer
TokenNamesIssuer ==
    /\ TokenPayloadData.t = "json"
    /\ TokenPayloadData.v.ty = "obj"
    /\ Get(TokenPayloadData.v.o, "iss").ty = "str"

TokenIssuer == TokenPayloadData.v.o.iss.s

\* the certs endpoint of the configured team
CertsEndpoint == accessTeamDomain \o <<"/cdn-cgi/access/certs">>

\* C11 as stated: the fetched certs URL is that of the configured team whatever
\* the token holds, a token is accepted only if its iss is the origin of that
\* URL, and a token naming any other issuer is refused with
\* 'JWT issuer is incorrect.'.
C11_Original ==
    /\ \A i \in DOMAIN fetchCalls : fetchCalls[i] = CertsEndpoint
    /\ Accepted => (TokenNamesIssuer /\ TokenIssuer = accessTeamDomain)
    /\ (ClockRead /\ TokenNamesIssuer /\ TokenIssuer # accessTeamDomain)
           => (Failed /\ Reason = "JWT issuer is incorrect.")

\* C11 amended: the fetched certs URL is that of the configured team whatever
\* the token holds; a token is accepted only if its iss is the origin of that
\* URL; a token whose payload passes the schema and names another team domain
\* is refused with 'JWT issuer is incorrect.', and an iss that is no Access
\* team domain is refused before, at payload decoding, with a schema error.
C11_IssuerBound ==
    /\ \A i \in DOMAIN fetchCalls : fetchCalls[i] = CertsEndpoint
    /\ Accepted =>
           /\ TokenNamesIssuer
           /\ TokenIssuer = accessTeamDomain
           /\ fetchCalls = <<CertsEndpoint>>
           /\ certsURL.origin = TokenIssuer
    /\ (ClockRead /\ PayloadParses /\ ~IssuerHolds)
           => (Failed /\ Reason = "JWT issuer is incorrect.")
    /\ (ClockRead /\ TokenNamesIssuer /\ TokenIssuer # accessTeamDomain
            /\ ~PayloadParses)
           => (Failed /\ Reason = "ZodError: AccessPayload" /\ verifyCalls = 0)

\* a token of the other team, valid in everything else, was refused for its
\* issuer after the certs of the configured team had been fetched
C11_Witness ==
    /\ ClockRead
    /\ PayloadParses
    /\ accessTeamDomain = TeamDomainOf(TeamA)
    /\ TokenIssuer = TeamDomainOf(TeamB)
    /\ AudienceHolds
    /\ ExpiryHolds
    /\ Reason = "JWT issuer is incorrect."
    /\ fetchCalls = <<CertsEndpoint>>

\* C12: a well-formed user token whose kid names a key of the fetched KeySet,
\* whose iss and aud match the configuration, with floor(now) < exp and
\* ceil(now) >= nbf, and whose signature verifies under that key, is accepted:
\* validateAccessJWT returns the token and its decoded payload, and the
\* middleware calls next() exactly once.
C12_EndToEnd ==
    ( /\ ClockRead
      /\ pc \in {"next", "done"}
      /\ TokenKid \in ResponseKids
      /\ PayloadParses
      /\ IsUser
      /\ IssuerHolds
      /\ AudienceHolds
      /\ ExpiryHolds
      /\ NotBeforeHolds
      /\ SignatureHolds ) =>
        /\ Accepted
        /\ result.val.jwt = header.s
        /\ result.val.payload = Strip(TokenClaims, UserAccessPayloadFields)
        /\ result.val.payload.sub = Str(Uuid)
        /\ nextCalls = 1
        /\ verifyCalls = 1
        /\ pc = "done" => response.status = 200

\* a user token was accepted at the second its nbf names, and next() ran once
C12_Witness ==
    /\ pc = "done"
    /\ Accepted
    /\ IsUser
    /\ NowMs = TokenClaims.nbf.n
    /\ SignatureHolds
    /\ nextCalls = 1
    /\ response.status = 200

\* the team matches [a-z0-9-]+ and the audience is 64 lowercase hex characters
ValidConfig ==
    /\ config.team \in {Str(TeamA), Str(TeamB)}
    /\ config.audience \in {Str(HexA), Str(HexB)}

\* the middleware has handled, or is handling, a request
Handling == pc \notin {"unbuilt", "idle"} \/ fetchCalls # <<>> \/ response # NoResponse

\* C13: useCloudflareAccess validates team and audience when it is called: with
\* a team that does not match [a-z0-9-]+ or an audience that is not 64
\* lowercase hex characters the call itself throws, so that no handler exists
\* and no request is ever handled under an invalid configuration.
C13_ConstructionTime ==
    /\ construction = "returned" => ValidConfig
    /\ (construction # "pending" /\ ~ValidConfig) =>
           /\ construction \in {"ZodError: AccessTeam", "ZodError: AccessAudience"}
           /\ pc = "unbuilt"
    /\ construction # "returned" => (pc = "unbuilt" /\ ~Handling)
    /\ pc # "unbuilt" =>
           /\ ValidConfig
           /\ accessTeamDomain = TeamDomainOf(config.team.s)
           /\ accessAud = config.audience.s

\* the call threw for a team that contains '_' and a capital, and no request
\* was taken
C13_Witness ==
    /\ config.team = Str(BadTeam)
    /\ config.audience = Str(HexA)
    /\ construction = "ZodError: AccessTeam"
    /\ pc = "unbuilt"

\* how far the handler of the request has come
Rank(p) ==
    CASE p = "start" -> 1
      [] p = "fetch" -> 2
      [] p = "json" -> 3
      [] p = "importKey" -> 4
      [] p = "verify" -> 5
      [] p = "next" -> 6
      [] p = "done" -> 7
      [] OTHER -> 0

\* a request is with the handler
InFlight == Rank(pc) \in 1..6

\* whatever the promise the handler waits for settles with, the handler has a
\* step to take
CanResume ==
    /\ pc = "fetch" => ENABLED (\E outcome \in FetchOutcomes : FetchSettles(outcome))
    /\ pc = "json" => ENABLED JsonSettles
    /\ pc = "importKey" => ENABLED (\E t \in Clock : ImportKeySettles(t))
    /\ pc = "verify" => ENABLED VerifySettles
    /\ pc = "next" => ENABLED NextSettles

\* the handler waits for a promise to settle
Awaiting == Rank(pc) \in 2..6

\* nothing is done twice for one request; whatever a promise the handler waits
\* for settles with, the handler has a next step; an answered request was
\* accepted or refused
LinearState ==
    /\ Len(fetchCalls) <= 1
    /\ importKeyCalls <= 1
    /\ verifyCalls <= 1
    /\ nextCalls <= 1
    /\ Awaiting => (Len(fetchCalls) = 1 /\ CanResume)
    /\ Answered =>
           \/ Accepted /\ nextCalls = 1 /\ response.status = 200
           \/ Failed /\ nextCalls = 0 /\ response = Unauthorized401

\* every step of a request in flight moves the handler forward, and no call,
\* once made, is made again
LinearStep ==
    /\ InFlight => Rank(pc') > Rank(pc)
    /\ InFlight => /\ Len(fetchCalls') \in {Len(fetchCalls), Len(fetchCalls) + 1}
                   /\ Len(fetchCalls') > Len(fetchCalls) => pc = "start"
                   /\ importKeyCalls' > importKeyCalls => pc = "json"
                   /\ verifyCalls' > verifyCalls => pc = "importKey"

\* C14: the verification of one request is a linear state machine: every step
\* moves it forward through at most seven stages, the certs endpoint is
\* fetched at most once and no fetch or check is tried again, and every path
\* ends in acceptance or in refusal.
C14_LinearNoRetry == []LinearState /\ [][LinearStep]_vars

\* the certs fetch failed and the request was refused without a second fetch
C14_Witness ==
    /\ Failed
    /\ Reason = "TypeError: fetch failed"
    /\ Len(fetchCalls) = 1
    /\ importKeyCalls = 0

\* what the handler of a request with header h does when it runs alone
Alone(h) ==
    IF ~hasValidJWT(h) THEN Err("unauthorized")
    ELSE validateAccessJWT(h, accessTeamDomain, accessAud,
                           Ok([status |-> 200, body |-> keySet]), now)

\* every answered request has the outcome it has when it runs alone; each
\* request fetched the certs at most once, for itself
IndependentState ==
    \A r \in Requests :
        /\ reqs[r].pc = "done" =>
               /\ reqs[r].result = Alone(reqs[r].header)
               /\ reqs[r].nextCalls = (IF Alone(reqs[r].header).ok THEN 1 ELSE 0)
        /\ reqs[r].fetchCalls <= 1
        /\ reqs[r].pc \in {"json", "importKey", "verify"} => reqs[r].fetchCalls = 1

\* a step of one handler writes neither the closure, nor what the certs
\* endpoint serves, nor anything of another request
IndependentStep ==
    /\ UNCHANGED <<closure, keySet>>
    /\ \A r, q \in Requests : (r # q /\ reqs'[r] # reqs[r]) => reqs'[q] = reqs[q]

\* C15: concurrent requests through one middleware are verified independently:
\* the handlers share nothing they write, none writes what the certs endpoint
\* serves, and for a fixed KeySet and clock each request has, under every
\* interleaving with the others, the outcome it has alone; each request may
\* fetch the certs for itself.
C15_Independent == []IndependentState /\ [][IndependentStep]_vars

\* two requests with tokens of different kids are in flight at once, each with
\* its own certs fetch behind it: the first waits for verify, the second for
\* the body of its certs response
C15_Witness ==
    /\ reqs[1].pc = "verify"
    /\ reqs[2].pc = "json"
    /\ reqs[1].fetchCalls = 1
    /\ reqs[2].fetchCalls = 1
    /\ reqs[1].kid # reqs[2].kid

\* the body of the certs response is a JSON object
BodyIsObject == certsResponse.body.t = "json" /\ certsResponse.body.v.ty = "obj"

\* field f of the body is missing or is an empty array
EmptyOrMissing(f) ==
    LET x == Get(certsResponse.body.v.o, f) IN
    x = Undefined \/ (x.ty = "arr" /\ Len(x.a) = 0)

\* C16: a certs response whose keys array or public_certs array is empty or
\* missing makes verification fail at the schema of the response, before any
\* key is looked up: it is not taken as a KeySet without keys.
C16_NonEmptyKeySet ==
    ( /\ BodyRead
      /\ BodyIsObject
      /\ EmptyOrMissing("keys") \/ EmptyOrMissing("public_certs") ) =>
        /\ Failed
        /\ Reason = "ZodError: AccessCertsResponse"
        /\ importKeyCalls = 0
        /\ verifyCalls = 0

\* a response with an empty keys array was refused by the schema
C16_Witness ==
    /\ BodyRead
    /\ BodyIsObject
    /\ Get(certsResponse.body.v.o, "keys") = Arr(<<>>)
    /\ ~EmptyOrMissing("public_certs")
    /\ Reason = "ZodError: AccessCertsResponse"

\* the keys of the response, and the places of those with the kid of the token
ResponseKeys == certsResponse.body.v.o.keys.a
Matches == {i \in DOMAIN ResponseKeys : ResponseKeys[i].o.kid.s = TokenKid}
FirstMatch == ResponseKeys[CHOOSE i \in Matches : \A j \in Matches : i <= j]

\* the token has passed key resolution: a key was handed to importKey
KeyResolved == BodyRead /\ ~UnusableResponse /\ importKeyCalls = 1

\* C17 as stated: a token passes key resolution only when its kid matches
\* exactly one key of the fetched KeySet.
C17_Original == KeyResolved => Cardinality(Matches) = 1

\* C17 amended: a token passes key resolution exactly when its kid matches at
\* least one key of the fetched KeySet; the key imported and used for the
\* signature is the first key of that kid in the order of the keys array,
\* also when several keys carry the kid.
C17_FirstMatch ==
    /\ (BodyRead /\ ~UnusableResponse) => (KeyResolved <=> Matches # {})
    /\ KeyResolved =>
           /\ IF "n" \in DOMAIN key THEN key.n = FirstMatch.o.n.s ELSE key = FirstMatch
           /\ Accepted => TokenSignatureData.sig = Sign(FirstMatch.o.n.s, TokenSigned)

\* two keys carry the kid of the token, and the token, signed by the first, was
\* accepted
C17_Witness ==
    /\ KeyResolved
    /\ Cardinality(Matches) = 2
    /\ ResponseKeys[1].o.n # ResponseKeys[2].o.n
    /\ Accepted
    /\ key.n = ResponseKeys[1].o.n.s

\* C18: the two payload variants exclude each other and the identity nonce
\* tells them apart: no decoded payload passes both schemas, a payload that
\* passes one is a user payload exactly when it carries identity_nonce, and a
\* payload that passes neither is refused when it is decoded, before any of
\* the issuer, audience, expiry and not-before checks and before
\* crypto.subtle.verify.
C18_VariantsExclusive ==
    /\ (ClockRead /\ TokenPayloadData.t = "json") =>
           ~(UserAccessPayload(TokenPayloadData.v)
                /\ ServiceAuthAccessPayload(TokenPayloadData.v))
    /\ (ClockRead /\ PayloadParses) =>
           /\ UserAccessPayload(TokenPayloadData.v) <=> IsUser
           /\ ServiceAuthAccessPayload(TokenPayloadData.v) <=> ~IsUser
    /\ (ClockRead /\ ~PayloadParses) =>
           /\ Failed
           /\ Reason \in {"ZodError: AccessPayload", "SyntaxError", "InvalidCharacterError"}
           /\ verifyCalls = 0
    /\ Accepted => (("identity_nonce" \in DOMAIN result.val.payload) <=> IsUser)

\* a service payload that carries an identity nonce passed neither schema and
\* was refused when it was decoded
C18_Witness ==
    /\ ClockRead
    /\ TokenPayloadData.t = "json"
    /\ TokenPayloadData.v = Obj(With(BaseService, "identity_nonce", Str("nonce")))
    /\ Reason = "ZodError: AccessPayload"
    /\ verifyCalls = 0

\* the processes between their acquire() and their release(): their command
\* is running
Holding == {p \in Procs : procs[p] = "acquired"}

\* C19: of the processes that use a lock of one name, at most `concurrency`
\* (4 by default) are between a completed acquire() and their release() at any
\* time, so that at most that many wrapped shell commands run at once.
C19_Original == Cardinality(Holding) <= Concurrency

\* the handler of useAuth has run
AuthRan == authPc \in {"next", "done"}

\* the configured tokens, and whether each is a string of at least one
\* character
ConfiguredTokens ==
    IF options.token.ty = "str" THEN {options.token}
    ELSE {options.token.a[i] : i \in DOMAIN options.token.a}
ValidTokens == \A t \in ConfiguredTokens : Len(t.s) >= 1

\* the header names the options list
ListedHeaders ==
    IF options.headers = Undefined THEN {}
    ELSE {options.headers.a[i] : i \in DOMAIN options.headers.a}

MethodsEnabled == options.queryKey \/ ListedHeaders # {} \/ options.bearerAuth

QueryPresents ==
    /\ options.queryKey
    /\ "key" \in DOMAIN ctx.query
    /\ ctx.query.key \in ConfiguredTokens

HeaderPresents ==
    \E h \in ListedHeaders : h \in DOMAIN ctx.header /\ ctx.header[h] \in ConfiguredTokens

Authorization ==
    IF "Authorization" \in DOMAIN ctx.header THEN ctx.header["Authorization"].s ELSE <<>>

\* the Authorization header is 'Bearer ' followed by a configured token
BearerExact ==
    options.bearerAuth /\ \E t \in ConfiguredTokens : Authorization = Bearer \o t.s

\* s holds the word 'Bearer '
HoldsBearer(s) ==
    \E i \in 1..(Len(s) - Len(Bearer) + 1) : SubSeq(s, i, i + Len(Bearer) - 1) = Bearer

Blanks == Normal({<<>>, <<" ">>, <<" ", " ">>})

\* the Authorization header is 'Bearer ', then a configured token that neither
\* starts nor ends with a blank, with blanks around it at will, and holds the
\* word 'Bearer ' nowhere but at its start
BearerTrimmed ==
    /\ options.bearerAuth
    /\ \E t \in ConfiguredTokens, l \in Blanks, r \in Blanks :
           /\ Authorization = Bearer \o l \o t.s \o r
           /\ Head(t.s) # " "
           /\ t.s[Len(t.s)] # " "
           /\ ~HoldsBearer(l \o t.s \o r)

Unauthorized == Normal(newHTTPException(401, "unauthorized"))

\* C20 as stated: with valid tokens, useAuth calls next() if and only if an
\* enabled method presents a configured token (the query parameter key, a
\* listed header, or the Authorization header 'Bearer <token>'); otherwise it
\* throws 401 'unauthorized' and next() is not called.
C20_Original ==
    (AuthRan /\ ValidTokens) =>
        IF QueryPresents \/ HeaderPresents \/ BearerExact
        THEN authNextCalls = 1 /\ thrown = Undefined
        ELSE authNextCalls = 0 /\ thrown = Unauthorized

\* C20 amended: with valid tokens and at least one method enabled, useAuth
\* calls next() if and only if the query parameter key or a listed header
\* equals a configured token, or, with bearerAuth, the Authorization header is
\* 'Bearer ' plus a configured token once the blanks around the token are
\* trimmed and 'Bearer ' occurs in it at its start only; otherwise it throws
\* 401 'unauthorized' without calling next().  With no method enabled it
\* throws 500 'no auth methods enabled' for every request.  A request without
\* any credential is never authorized.
C20_AuthorizedIff ==
    (AuthRan /\ ValidTokens) =>
        /\ IF ~MethodsEnabled
           THEN authNextCalls = 0 /\ thrown = newHTTPException(500, "no auth methods enabled")
           ELSE IF QueryPresents \/ HeaderPresents \/ BearerTrimmed
           THEN authNextCalls = 1 /\ thrown = Undefined
           ELSE authNextCalls = 0 /\ thrown = Unauthorized
        /\ ("key" \notin DOMAIN ctx.query /\ DOMAIN ctx.header = {}) => authNextCalls = 0

\* a request whose Authorization header carries the token after two blanks was
\* let through to next()
C20_Witness ==
    /\ AuthRan
    /\ options.token = Str(TokenX)
    /\ options.bearerAuth
    /\ ~options.queryKey
    /\ Authorization = Bearer \o <<" ">> \o TokenX
    /\ authNextCalls = 1

\* a name that is key, apiKey or api_key when case is ignored
Sensitive(n) == toLowerCase(n) \in { toLowerCase(m) : m \in RedactedNames }

RedactIn == urlArg.s
RedactOut == urlHeap[urlRet.ref]

\* C21: the URL redactUrl returns has the value 'REDACTED' for every query
\* parameter named key, apiKey or api_key, whatever the case of the name; it
\* has the other parameters as they were; and the URL object that was passed
\* is a different object and reads as before.
C21_Redacted ==
    urlRet # Undefined =>
        /\ \A i \in DOMAIN RedactOut :
              Sensitive(RedactOut[i].name) => RedactOut[i].value = "REDACTED"
        /\ { RedactIn[i].name : i \in DOMAIN RedactIn }
              = { RedactOut[i].name : i \in DOMAIN RedactOut }
        /\ SelectSeq(RedactOut, LAMBDA e : ~Sensitive(e.name))
              = SelectSeq(RedactIn, LAMBDA e : ~Sensitive(e.name))
        /\ urlArg.ty = "URL" =>
              /\ urlRet.ref # urlArg.ref
              /\ urlHeap[urlArg.ref] = urlArg.s

\* the handlers of the app that have run
HasRun == { ran[k] : k \in DOMAIN ran }

\* a handler registered with use() with no path or with a wildcard path
Wildcard(h) == h.method = "ALL" /\ h.path \in {NoPath, "*", "/*"}

\* every handler registered before handler i that is on the route of the
\* request calls next()
EarlierCallNext(i) ==
    \A j \in 1..(i - 1) : RouteMatches(app[j], honoReq) => app[j].does = "next"

\* C22: a handler runs only if every earlier handler on the route called
\* next(); after a handler that returned a response without calling next(), or
\* that threw, no later handler runs, and the response is that handler's
\* response, or 500 'Internal Server Error' for a throw; and a handler
\* registered with use() with no path or a wildcard path runs for every request
\* path whose earlier handlers called next(), paths that end in 404 included.
C22_ChainOrder ==
    honoPc \in {"dispatch", "return", "done"} =>
        /\ \A i \in HasRun : RouteMatches(app[i], honoReq) /\ EarlierCallNext(i)
        /\ \A k \in DOMAIN ran : \A l \in DOMAIN ran : k < l => ran[k] < ran[l]
        /\ \A i \in HasRun :
              app[i].does # "next" =>
                 /\ \A j \in HasRun : j <= i
                 /\ honoRes = IF app[i].does = "respond" THEN ResponseOf(i) ELSE errorHandler
        /\ honoPc = "done" =>
              /\ \A i \in DOMAIN app :
                    (Wildcard(app[i]) /\ EarlierCallNext(i)) => i \in HasRun
              /\ (\A i \in HasRun : app[i].does = "next") => honoRes = notFoundHandler

\* the second of three handlers on the route threw: the first awaited next()
\* and the third never ran
C22_Witness ==
    /\ honoPc = "done"
    /\ Len(matched) = 3
    /\ Len(ran) = 2
    /\ app[ran[1]].does = "next"
    /\ app[ran[2]].does = "throw"
    /\ app[matched[3]].method = "GET"
    /\ honoRes = errorHandler

\* the flush calls whose doFlush has started and has not finished
Flushing ==
    { f \in DOMAIN flushes :
         flushes[f].pc \in {"get", "trace", "tags", "fetch", "text", "get2"} }

\* C23: at most one doFlush of an AxiomLogger runs at any time, whatever the
\* interleaving of manual, timer and threshold flushes, and no log entry is
\* sent to Axiom in two batches.
C23_OneFlush ==
    /\ Cardinality(Flushing) <= 1
    /\ \A b \in DOMAIN ingested : \A c \in DOMAIN ingested :
          b # c => \A i \in DOMAIN ingested[b] : \A j \in DOMAIN ingested[c] :
                      ingested[b][i] # ingested[c][j]

\* the entries of the buffer, and the entries Axiom has taken
Buffered == { logs[i] : i \in DOMAIN logs }
Sent == UNION { { ingested[b][i] : i \in DOMAIN ingested[b] } : b \in DOMAIN ingested }

\* entry number i of the buffer is covered: a flush timer is pending, or a
\* flush call has yet to read the buffer, or the entry is in the body of a
\* request that is in flight
Covered(i) ==
    \/ timers # {}
    \/ \E f \in DOMAIN flushes : flushes[f].pc \in {"awaitPrev", "trace", "tags"}
    \/ \E f \in DOMAIN flushes :
          /\ flushes[f].pc \in {"fetch", "text"}
          /\ i <= flushes[f].logsCount

\* nothing of the logger is scheduled, ready or in flight
Quiescent ==
    /\ timers = {}
    /\ Idle
    /\ \A f \in DOMAIN flushes : flushes[f].pc = "returned"

\* C24: in in-memory mode, with ingest requests that succeed, every entry in
\* the buffer has a flush scheduled or in progress that covers it, entries
\* logged while a flush is in flight included; so the buffer is empty when
\* nothing of the logger is left to run.
C24_EverySent ==
    ~state =>
        /\ \A i \in DOMAIN logs : Covered(i)
        /\ Quiescent => logs = <<>>

\* C25: in in-memory mode an entry leaves the buffer only when Axiom has
\* answered ok to a request that carried it: every entry logged so far is in
\* the buffer or has been taken by Axiom, also after failed requests and for
\* entries appended while a request was in flight; and once no flush is
\* running, what Axiom has taken is no longer in the buffer.
C25_RemovesWhatItSent ==
    ~state =>
        /\ \A e \in 1..logged : e \in Buffered \/ e \in Sent
        /\ (\A f \in DOMAIN flushes : flushes[f].pc \in {"awaitPrev", "settled", "returned"})
              => Buffered \cap Sent = {}

\* C26: at most one flush timer is pending at any time, and in Durable Object
\* storage mode no timer is ever created.
C26_OneTimer ==
    /\ Cardinality(timers) <= 1
    /\ state => handles = 0

\* the entries of the '__AXIOM_LOGS__' value
Stored == { OrEmpty(storage)[i] : i \in DOMAIN OrEmpty(storage) }

\* C27: in Durable Object storage mode, once the storage reads of the _log
\* calls made so far have resolved, and with no flush called yet, the
\* '__AXIOM_LOGS__' value holds every entry that was logged.
C27_NoneLost ==
    (state /\ gets = <<>> /\ flushes = <<>>) => \A e \in 1..logged : e \in Stored

\* the promises of c.var.txWaitUntil that were pushed before promise p
RegisteredBefore(p) ==
    {txWaitUntil[i] : i \in {j \in DOMAIN txWaitUntil :
                                \E k \in DOMAIN txWaitUntil : k > j /\ txWaitUntil[k] = p}}

\* C28: logger.flush() of useAxiomLogger is called only when the entry of the
\* request has been given to the logger and every promise pushed to
\* txWaitUntil before waitAndFlush is settled; once useAxiomLogger has run
\* with a logger, the promise of waitAndFlush is in txWaitUntil; and the
\* invocation does not end before that flush has completed.
C28_FlushAfterTasks ==
    /\ flushPc # "none" =>
          /\ requestLog
          /\ \A p \in PromisesOf("waitAndFlush") : AllSettled(RegisteredBefore(p))
    /\ (hasLogger /\ reqPc \in {"useSentry_after", "done"}) =>
          \E i \in DOMAIN txWaitUntil : txWaitUntil[i] \in PromisesOf("waitAndFlush")
    /\ (hasLogger /\ ~alive /\ reqPc = "done") => flushPc = "done"

\* the invocation has ended after a flush that had to wait for two tasks of
\* the handler, one of which failed
C28_Witness ==
    /\ ~alive /\ reqPc = "done"
    /\ flushPc = "done"
    /\ Cardinality(PromisesOf("background")) = 2
    /\ \E p \in PromisesOf("background") : promises[p].status = "rejected"

\* the request ended with one of the statuses of skipTxStatuses
Skipped ==
    \/ c_res \in skipTxStatuses
    \/ instanceofHTTPException(c_error) /\ c_error.status \in skipTxStatuses

\* C29: the transaction of a request that ended with 401, 403 or 404 (thrown
\* as an HTTPException or set on the response) is never finished; a finished
\* transaction has every promise of txWaitUntil settled; and once useSentry
\* has run, a promise that waits for all of txWaitUntil has been passed to
\* executionCtx.waitUntil, so the invocation ends with all of them settled.
C29_TxAfterTasks ==
    /\ tx = "finished" =>
          /\ ~Skipped
          /\ AllSettled(allSettled(txWaitUntil))
    /\ reqPc = "done" =>
          \E p \in waitUntil : promises[p].inputs = allSettled(txWaitUntil)
    /\ (~alive /\ reqPc = "done") => AllSettled(allSettled(txWaitUntil))

\* the transaction of a request answered with 200 is finished after the
\* tasks of the handler and the flush
C29_Witness ==
    /\ tx = "finished"
    /\ c_res = 200
    /\ Cardinality(PromisesOf("background")) = 2
    /\ flushPc = "done"

\* the invocation of a request whose handler threw an HTTPException of status
\* 403 has ended with the transaction left unfinished
C29_WitnessSkipped ==
    /\ ~alive /\ reqPc = "done"
    /\ tx = "started"
    /\ instanceofHTTPException(c_error) /\ c_error.status = 403
    /\ Cardinality(PromisesOf("background")) = 2

====
